---- MODULE Spec2Model ----
(***************************************************************************)
(* Tourship backend: the booking / capacity lifecycle of one trip, the     *)
(* tourist cancellation refund, and the guide-assignment response, as the  *)
(* controllers and the Trip model implement them.                          *)
(*                                                                         *)
(* One Trip document is modelled (the record `trip`); requests are the     *)
(* actions.  A handler is  read the document / change it in memory /       *)
(* trip.save();  save runs the schema's pre-save hook and then writes the  *)
(* paths that changed.  Requests are made by the owning organiser and by   *)
(* existing, active tourists, so the 404 answers for a missing trip or     *)
(* user are not drawn.                                                     *)
(*                                                                         *)
(* Beside the trip: the User documents of the guides and the organiser     *)
(* (profile, verification, guide assignment: `users`), the User collection *)
(* as the account handlers see it (register, login, password reset, soft   *)
(* delete, roles: `accounts`), one Attraction document with its embedded  *)
(* reviews and rating aggregate (`attraction`), the Attraction collection *)
(* with its slugs (`attractions`), and the middleware and routes in front *)
(* of the handlers (`build`).                                              *)
(***************************************************************************)
EXTENDS Integers, Sequences, FiniteSets, TLC

\* ------------------------------------------------------------------ bounds
MaxPeople == 3        \* capacity.maxPeople of the modelled trip
MaxGroup == 2         \* numberOfPeople of a request is drawn from 0..MaxGroup
MaxBookings == 2      \* the bookings list is capped at this length
PricePerPerson == 2   \* pricing.pricePerPerson of the modelled trip
TripStart == 1        \* startDate of the trip, in clock ticks
MaxDeficit == 2       \* a decrement is drawn while currentBookings stays >= -MaxDeficit
MaxLeadDays == 9      \* SpecRefund draws the start date up to this many days ahead
MaxRules == 2         \* SpecRefund draws at most this many refundRules
TicksPerDay == 2      \* clock ticks in a day (1000 * 60 * 60 * 24 ms)
MaxTours == 2         \* an accept is drawn while the guide's totalTours is below this
MaxAccounts == 3      \* SpecAuth: User documents, the admin's included
MaxTokens == 2        \* SpecAuth: password reset tokens handed out
MaxDeletes == 2       \* SpecAuth: soft deletes taken
MaxAttractions == 2   \* SpecSlug: Attraction documents stored at a time

TripEnd == TripStart + 1     \* endDate of the trip
MaxNow == TripEnd + 1        \* the clock stops one tick after the end date

Tourists == {"u1", "u2"}
GroupSizes == 0..MaxGroup
BookingIds == 1..(MaxBookings + 1)   \* position in trip.bookings; one id is always unknown

Guides == {"g1", "g2"}
Organisers == {"o1"}
Users == Guides \cup Organisers
NoGuide == "none"                    \* a null guide reference
Reasons == {"", "busy"}              \* req.body.reason; "" is a missing reason
Procs == {1, 2}                      \* SpecConc: two requests in flight

VARIABLES
  trip,        \* the stored Trip document
  users,       \* the stored User documents of the guides and the organiser
  now,         \* the clock (new Date()), in ticks
  last,        \* the response to the last request
  reqs,        \* SpecConc: per request in flight, the document it read and changed
  accounts,    \* SpecAuth: the stored User documents, as the account handlers see them
  attraction,  \* SpecReview: the stored Attraction document
  attractions, \* SpecSlug: the Attraction collection (name, city and slug of each document)
  build        \* which definition of middleware/auth.js and of routes/organiserRoutes.js the server has loaded

vars == <<trip, users, now, last, reqs, accounts, attraction, attractions, build>>

\* the documents the trip and guide handlers never touch, and the middleware
otherDocs == <<accounts, attraction, attractions, build>>

\* ------------------------------------------------------------- Trip schema
\* bookingSchema: the fields the handlers read or write
Booking(u, n, total) ==
  [user |-> u, numberOfPeople |-> n, totalAmount |-> total, paidAmount |-> 0,
   paymentStatus |-> "pending", bookingStatus |-> "pending"]

\* tripSchema defaults, with the capacity, price and dates createTrip stores
NewTrip ==
  [status |-> "draft",
   currentBookings |-> 0,
   availableSlots |-> MaxPeople,
   bookings |-> <<>>,
   bookingsCount |-> 0,
   revenue |-> 0,
   pricePerPerson |-> PricePerPerson,
   refundRules |-> <<>>,
   startDate |-> TripStart,
   endDate |-> TripEnd,
   guide |-> NoGuide,                \* guide (assignedGuide in the guide controller)
   gaStatus |-> "not_assigned",      \* guideAssignment.status (guideStatus)
   assignedAt |-> -1,                \* guideAssignment.assignedAt, -1 when unset
   respondedAt |-> -1,               \* guideAssignment.respondedAt, -1 when unset
   rejectionReason |-> "",           \* guideAssignment.rejectionReason (guideRejectionReason)
   schema |-> 2,                     \* which of the two tripSchema definitions of Trip.js is compiled
   v |-> 0]

\* the source holds two definitions of middleware/auth.js (both in
\* models/Trip.js) and two of routes/organiserRoutes.js (with and without
\* the trip routes); a server runs one of each
Builds == [auth : {1, 2}, organiserRoutes : {1, 2}]
FirstBuild == [auth |-> 1, organiserRoutes |-> 1]

\* guideProfileSchema / organiserProfileSchema: the enum of verificationStatus
VerificationStatuses == {"pending", "under_review", "approved", "rejected"}

\* the profile fields the self-submission asks for
RequiredFields(role) ==
  IF role = "guide" THEN {"licenseNumber", "languagesSpoken", "operatingDistricts"}
  ELSE {"companyName", "companyType", "registrationNumber"}

\* userSchema with the profile of the user's role, as register stores it:
\* `filled` is the set of profile fields that hold a value
NewUser(role) ==
  [role |-> role,
   isActive |-> TRUE,
   isBanned |-> FALSE,
   isVerified |-> FALSE,
   verificationStatus |-> "pending",
   filled |-> {},
   totalTours |-> 0]

NewUsers == [u \in Users |-> NewUser(IF u \in Guides THEN "guide" ELSE "organiser")]

\* userSchema as the account handlers see it.  An email is an address with
\* the stamps a soft delete has put in front of it:
\* `deleted_${Date.now()}_${user.email}`
Addresses == {"a@x.in"}
AdminAddress == "admin@x.in"
Phones == {"9000000001", "9000000002"}
AdminPhone == "9000000000"
Passwords == {"secret1", "secret2"}
AdminId == 1                         \* _id of the admin's document

Email(addr) == [stamps |-> <<>>, addr |-> addr]

\* the pre-save hook stores bcrypt.hash(password); comparePassword hashes
\* the candidate and compares
Bcrypt(password) == <<"bcrypt", password>>
ComparePassword(doc, candidate) == doc.password = Bcrypt(candidate)

\* crypto.createHash('sha256').update(resetToken).digest('hex')
Sha256(token) == <<"sha256", token>>
NoToken == <<>>                      \* passwordResetToken: undefined
NoExpire == -1                       \* passwordResetExpire: undefined
Never == -1                          \* lastLogin: undefined

\* a path that holds no value (undefined)
Undefined == [undefined |-> TRUE]

Account(email, phone, password, role) ==
  [email |-> email, phone |-> phone, password |-> Bcrypt(password), role |-> role,
   isActive |-> TRUE, isBanned |-> FALSE, lastLogin |-> Never,
   passwordResetToken |-> NoToken, passwordResetExpire |-> NoExpire,
   permissions |-> {},               \* adminProfile.permissions
   guideProfile |-> Undefined, organiserProfile |-> Undefined]

\* the collection holds the admin's document (create-admin.js); `sent` lists
\* the reset tokens handed out (token k is the k-th), `deletes` counts the
\* soft deletes
NewAccounts ==
  [docs |-> <<[Account(Email(AdminAddress), AdminPhone, "secret1", "admin")
                 EXCEPT !.permissions = {"full_access"}]>>,
   sent |-> <<>>,
   deletes |-> 0]
\* attractionSchema: the embedded reviews and the rating aggregate.  Ratings
\* and ratings.overall are held in tenths (45 is 4.5), the popularity score
\* in tenths as well.
NewAttraction ==
  [isActive |-> TRUE,
   reviews |-> <<>>,
   ratings |-> [overall |-> 0, totalReviews |-> 0,
                distribution |-> [five |-> 0, four |-> 0, three |-> 0, two |-> 0, one |-> 0]],
   popularityScore |-> 0]

Idle == [pc |-> "idle"]

\* a response: the handler, the HTTP status, the refundAmount of the body in
\* hundredths, and (for the record) the trip status the handler read
NoResponse == [op |-> "none", code |-> 0, refund |-> 0, was |-> "draft"]
Response(op, code, t) == [op |-> op, code |-> code, refund |-> 0, was |-> t.status]

\* sum of numberOfPeople over the bookings that are not cancelled
RECURSIVE ActivePeople(_)
ActivePeople(bs) ==
  IF bs = <<>> THEN 0
  ELSE (IF bs[1].bookingStatus # "cancelled" THEN bs[1].numberOfPeople ELSE 0)
       + ActivePeople(Tail(bs))

\* a pre-save hook that would also recount currentBookings from the bookings
PreSaveRecount(t, clock) ==
  LET t1 == [t EXCEPT !.currentBookings = ActivePeople(t.bookings),
                      !.availableSlots = MaxPeople - ActivePeople(t.bookings)]
      t2 == IF t1.currentBookings >= MaxPeople /\ t1.status = "published"
            THEN [t1 EXCEPT !.status = "full"] ELSE t1
  IN IF clock > t2.endDate /\ t2.status # "completed" /\ t2.status # "cancelled"
     THEN [t2 EXCEPT !.status = "expired"] ELSE t2

\* the first tripSchema's pre('save'): "update status if full"
PreSaveFirst(t) ==
  IF t.currentBookings >= MaxPeople THEN [t EXCEPT !.status = "full"] ELSE t

\* tripSchema.pre('save'): available slots, auto-full, auto-expire (the
\* second tripSchema; the first one's hook when that schema is compiled)
PreSave(t, clock) ==
  LET t1 == [t EXCEPT !.availableSlots = MaxPeople - t.currentBookings]
      t2 == IF t1.currentBookings >= MaxPeople /\ t1.status = "published"
            THEN [t1 EXCEPT !.status = "full"] ELSE t1
  IN IF t.schema = 1 THEN PreSaveFirst(t)
     ELSE IF clock > t2.endDate /\ t2.status # "completed" /\ t2.status # "cancelled"
     THEN [t2 EXCEPT !.status = "expired"] ELSE t2

\* document.save(): the hook runs on the in-memory document `mem`, read as
\* `base`; the changed paths are then written to the stored document `db`.
\* A pushed booking is a $push, which increments the version key; a changed
\* field of an existing booking is a positional $set, sent with the version
\* read, and fails (VersionError: nothing is written) when it has moved on.
Scalars == {"status", "currentBookings", "availableSlots", "bookingsCount", "revenue",
            "guide", "gaStatus", "assignedAt", "respondedAt", "rejectionReason"}

SaveConflict(db, base, mem) ==
  /\ db.v # base.v
  /\ \E i \in 1..Len(base.bookings) : mem.bookings[i] # base.bookings[i]

Written(db, base, mem) ==
  LET nb == Len(base.bookings)
      pushed == SubSeq(mem.bookings, nb + 1, Len(mem.bookings))
      kept == [i \in 1..Len(db.bookings) |->
                 IF i <= nb /\ mem.bookings[i] # base.bookings[i]
                 THEN [f \in DOMAIN db.bookings[i] |->
                         IF mem.bookings[i][f] # base.bookings[i][f]
                         THEN mem.bookings[i][f] ELSE db.bookings[i][f]]
                 ELSE db.bookings[i]]
  IN [f \in DOMAIN db |->
        IF f \in Scalars THEN (IF mem[f] # base[f] THEN mem[f] ELSE db[f])
        ELSE IF f = "bookings" THEN kept \o pushed
        ELSE IF f = "v" THEN (IF pushed # <<>> THEN db.v + 1 ELSE db.v)
        ELSE db[f]]

Save(db, base, mem0, clock) ==
  LET mem == PreSave(mem0, clock)
  IN IF SaveConflict(db, base, mem) THEN db ELSE Written(db, base, mem)

\* ------------------------------------------------- organiser: publishTrip
\* tripController.publishTrip: the required fields are present on the
\* modelled trip; a past start date is refused
PublishTrip ==
  /\ IF trip.startDate < now
     THEN /\ last' = Response("publishTrip", 400, trip)
          /\ trip' = trip
     ELSE /\ last' = Response("publishTrip", 200, trip)
          /\ trip' = Save(trip, trip, [trip EXCEPT !.status = "published"], now)
  /\ UNCHANGED <<users, now, reqs, otherDocs>>

\* the cap on the counter: cancelling booking `id` keeps it within the bound
WithinDeficit(t, id) ==
  id <= Len(t.bookings) => t.currentBookings - t.bookings[id].numberOfPeople >= -MaxDeficit

\* --------------------------------------------- organiser: tripController
HasActiveBooking(t, u) ==
  \E i \in 1..Len(t.bookings) :
     t.bookings[i].user = u /\ t.bookings[i].bookingStatus # "cancelled"

\* tripController.addBooking, the document as changed in memory
TcAddBookingDoc(t, u, n) ==
  LET t1 == [t EXCEPT !.bookings = Append(@, Booking(u, n, t.pricePerPerson * n)),
                      !.currentBookings = @ + n,
                      !.bookingsCount = @ + 1]
  IN IF t1.currentBookings >= MaxPeople THEN [t1 EXCEPT !.status = "full"] ELSE t1

TcAddBookingCode(t, u, n) ==
  IF n = 0 THEN 400
  ELSE IF t.currentBookings + n > MaxPeople THEN 400
  ELSE IF HasActiveBooking(t, u) THEN 400
  ELSE 201

TcAddBooking(u, n) ==
  LET code == TcAddBookingCode(trip, u, n)
  IN /\ code = 201 => Len(trip.bookings) < MaxBookings
     /\ last' = Response("addBooking", code, trip)
     /\ trip' = IF code = 201 THEN Save(trip, trip, TcAddBookingDoc(trip, u, n), now) ELSE trip
     /\ UNCHANGED <<users, now, reqs, otherDocs>>

\* tripController.updateBooking; "" and -1 stand for a field the body omits
TcUpdateBookingDoc(t, id, bookingStatus, paymentStatus, paidAmount) ==
  LET b0 == t.bookings[id]
      b1 == IF bookingStatus # "" THEN [b0 EXCEPT !.bookingStatus = bookingStatus] ELSE b0
      b2 == IF paymentStatus # "" THEN [b1 EXCEPT !.paymentStatus = paymentStatus] ELSE b1
      b3 == IF paidAmount # -1 THEN [b2 EXCEPT !.paidAmount = paidAmount] ELSE b2
  IN [t EXCEPT !.bookings[id] = b3]

TcUpdateBooking(id, bookingStatus, paymentStatus, paidAmount) ==
  LET code == IF id > Len(trip.bookings) THEN 404 ELSE 200
  IN /\ last' = Response("updateBooking", code, trip)
     /\ trip' = IF code = 200
                THEN Save(trip, trip,
                          TcUpdateBookingDoc(trip, id, bookingStatus, paymentStatus, paidAmount), now)
                ELSE trip
     /\ UNCHANGED <<users, now, reqs, otherDocs>>

\* removeBooking without the "if trip was full, reopen it" step
TcRemoveBookingDocNoReopen(t, id, refund) ==
  LET b0 == t.bookings[id]
      b1 == IF refund /\ b0.paymentStatus = "completed"
            THEN [b0 EXCEPT !.paymentStatus = "refunded"] ELSE b0
      b2 == [b1 EXCEPT !.bookingStatus = "cancelled"]
  IN [t EXCEPT !.currentBookings = @ - b0.numberOfPeople, !.bookings[id] = b2]

\* tripController.removeBooking
TcRemoveBookingDoc(t, id, refund) ==
  LET b0 == t.bookings[id]
      b1 == IF refund /\ b0.paymentStatus = "completed"
            THEN [b0 EXCEPT !.paymentStatus = "refunded"] ELSE b0
      b2 == [b1 EXCEPT !.bookingStatus = "cancelled"]
      t1 == [t EXCEPT !.currentBookings = @ - b0.numberOfPeople, !.bookings[id] = b2]
  IN IF t1.status = "full" THEN [t1 EXCEPT !.status = "published"] ELSE t1

TcRemoveBooking(id, refund) ==
  LET code == IF id > Len(trip.bookings) THEN 404 ELSE 200
  IN /\ WithinDeficit(trip, id)
     /\ last' = Response("removeBooking", code, trip)
     /\ trip' = IF code = 200 THEN Save(trip, trip, TcRemoveBookingDoc(trip, id, refund), now)
                ELSE trip
     /\ UNCHANGED <<users, now, reqs, otherDocs>>

\* tripController.cancelTrip
CancelTripDoc(t) ==
  [t EXCEPT !.status = "cancelled",
            !.bookings = [i \in 1..Len(t.bookings) |->
               LET b == t.bookings[i]
               IN IF b.bookingStatus \in {"pending", "confirmed"}
                  THEN [b EXCEPT !.bookingStatus = "cancelled",
                                 !.paymentStatus = IF @ = "completed" THEN "refunded" ELSE @]
                  ELSE b]]

CancelTrip ==
  LET code == IF trip.status \in {"cancelled", "completed"} THEN 400 ELSE 200
  IN /\ last' = Response("cancelTrip", code, trip)
     /\ trip' = IF code = 200 THEN Save(trip, trip, CancelTripDoc(trip), now) ELSE trip
     /\ UNCHANGED <<users, now, reqs, otherDocs>>

\* organiserController.cancelTrip: an already cancelled trip is answered 200
OcCancelTripCode(t) ==
  IF t.status = "cancelled" THEN 200
  ELSE IF t.status = "completed" THEN 400
  ELSE 200

OcCancelTripDoc(t) ==
  [t EXCEPT !.status = "cancelled",
            !.bookings = [i \in 1..Len(t.bookings) |->
               IF t.bookings[i].bookingStatus \in {"pending", "confirmed"}
               THEN [t.bookings[i] EXCEPT !.bookingStatus = "cancelled"]
               ELSE t.bookings[i]]]

OcCancelTrip ==
  /\ last' = Response("organiser.cancelTrip", OcCancelTripCode(trip), trip)
  /\ trip' = IF trip.status \in {"cancelled", "completed"} THEN trip
             ELSE Save(trip, trip, OcCancelTripDoc(trip), now)
  /\ UNCHANGED <<users, now, reqs, otherDocs>>

\* tripController.updateTrip with { status } in the body: findByIdAndUpdate
\* runs the validators and no save hook
UpdateTripStatuses == {"draft", "completed"}

UpdateTrip(status) ==
  LET code == IF trip.status \in {"completed", "cancelled"} THEN 400 ELSE 200
  IN /\ last' = Response("updateTrip", code, trip)
     /\ trip' = IF code = 200 THEN [trip EXCEPT !.status = status] ELSE trip
     /\ UNCHANGED <<users, now, reqs, otherDocs>>

\* ------------------------------------------------ tourist: bookTrip/cancel
\* bookTrip: the trip is found only when published and not yet started; the
\* modelled trip configures no group or early-bird discount
BookTripDoc(t, u, n) ==
  LET t1 == [t EXCEPT !.bookings = Append(@, Booking(u, n, t.pricePerPerson * n)),
                      !.currentBookings = @ + n,
                      !.bookingsCount = @ + 1]
  IN IF t1.currentBookings >= MaxPeople THEN [t1 EXCEPT !.status = "full"] ELSE t1

BookTripCode(t, n, clock) ==
  IF n < 1 THEN 400
  ELSE IF ~(t.status = "published" /\ t.startDate > clock) THEN 404
  ELSE IF n > MaxPeople - t.currentBookings THEN 400
  ELSE 201

BookTrip(u, n) ==
  LET code == BookTripCode(trip, n, now)
  IN /\ code = 201 => Len(trip.bookings) < MaxBookings
     /\ last' = Response("bookTrip", code, trip)
     /\ trip' = IF code = 201 THEN Save(trip, trip, BookTripDoc(trip, u, n), now) ELSE trip
     /\ UNCHANGED <<users, now, reqs, otherDocs>>

\* Math.ceil(a / b) for b > 0
CeilDiv(a, b) == -((-a) \div b)

\* daysUntilTrip = Math.ceil((startDate - now) / day)
DaysUntilTrip(t, clock) == CeilDiv(t.startDate - clock, TicksPerDay)

\* [...refundRules].sort((a, b) => b.daysBeforeTrip - a.daysBeforeTrip):
\* descending, and stable (equal thresholds keep their listed order)
RECURSIVE InsertRule(_, _)
InsertRule(sorted, r) ==
  IF sorted = <<>> THEN <<r>>
  ELSE IF Head(sorted).daysBeforeTrip >= r.daysBeforeTrip
       THEN <<Head(sorted)>> \o InsertRule(Tail(sorted), r)
       ELSE <<r>> \o sorted

\* the rules taken in the order listed, unsorted
SortRulesAsListed(rules) == rules

RECURSIVE SortRules(_)
SortRules(rules) ==
  IF rules = <<>> THEN <<>>
  ELSE InsertRule(SortRules(SubSeq(rules, 1, Len(rules) - 1)), rules[Len(rules)])

\* the loop over the sorted rules: the first one the days reach, else nothing
RECURSIVE FirstRulePercent(_, _)
FirstRulePercent(sorted, days) ==
  IF sorted = <<>> THEN 0
  ELSE IF days >= Head(sorted).daysBeforeTrip THEN Head(sorted).refundPercent
  ELSE FirstRulePercent(Tail(sorted), days)

\* the default tiers with >= for > in the first comparison
DefaultPercentAtLeast(days) == IF days >= 7 THEN 90 ELSE IF days > 3 THEN 50 ELSE 0

\* the default cancellation policy
DefaultPercent(days) == IF days > 7 THEN 90 ELSE IF days > 3 THEN 50 ELSE 0

RefundPercent(days, rules) ==
  IF Len(rules) > 0 THEN FirstRulePercent(SortRules(rules), days)
  ELSE DefaultPercent(days)

\* refundAmount, in hundredths of the currency unit
RefundAmount(paidAmount, days, rules) == paidAmount * RefundPercent(days, rules)

CancelMyBookingDoc(t, id) ==
  LET b0 == t.bookings[id]
      t1 == [t EXCEPT !.bookings[id].bookingStatus = "cancelled",
                      !.currentBookings = @ - b0.numberOfPeople]
  IN IF t1.status = "full" THEN [t1 EXCEPT !.status = "published"] ELSE t1

\* cancelMyBooking without the two tests of the booking's status
CancelMyBookingCodeAnyStatus(t, u, id) ==
  IF id > Len(t.bookings) THEN 404
  ELSE IF t.bookings[id].user # u THEN 403
  ELSE 200

CancelMyBookingCode(t, u, id) ==
  IF id > Len(t.bookings) THEN 404
  ELSE IF t.bookings[id].user # u THEN 403
  ELSE IF t.bookings[id].bookingStatus = "cancelled" THEN 400
  ELSE IF t.bookings[id].bookingStatus = "completed" THEN 400
  ELSE 200

CancelMyBooking(u, id) ==
  LET code == CancelMyBookingCode(trip, u, id)
  IN /\ WithinDeficit(trip, id)
     /\ last' = [Response("cancelMyBooking", code, trip) EXCEPT
                   !.refund = IF code = 200
                              THEN RefundAmount(trip.bookings[id].paidAmount,
                                                DaysUntilTrip(trip, now), trip.refundRules)
                              ELSE 0]
     /\ trip' = IF code = 200 THEN Save(trip, trip, CancelMyBookingDoc(trip, id), now) ELSE trip
     /\ UNCHANGED <<users, now, reqs, otherDocs>>

\* ------------------------------------------------- Trip instance methods
\* tripSchema.methods.addBooking(bookingData); a thrown error is answered 500
ModelAddBookingDoc(t, u, n) ==
  [t EXCEPT !.bookings = Append(@, Booking(u, n, t.pricePerPerson * n)),
            !.currentBookings = @ + n,
            !.bookingsCount = @ + 1,
            !.revenue = @ + t.pricePerPerson * n]

\* a full trip throws; numberOfPeople below the schema's min: 1 fails validation
ModelAddBookingCode(t, n) ==
  IF t.currentBookings >= MaxPeople THEN 500
  ELSE IF n < 1 THEN 500
  ELSE 201

ModelAddBooking(u, n) ==
  LET code == ModelAddBookingCode(trip, n)
  IN /\ code = 201 => Len(trip.bookings) < MaxBookings
     /\ last' = Response("Trip.addBooking", code, trip)
     /\ trip' = IF code = 201 THEN Save(trip, trip, ModelAddBookingDoc(trip, u, n), now) ELSE trip
     /\ UNCHANGED <<users, now, reqs, otherDocs>>

\* tripSchema.methods.cancelBooking(bookingId)
ModelCancelBookingDoc(t, id) ==
  LET t1 == [t EXCEPT !.bookings[id].bookingStatus = "cancelled",
                      !.currentBookings = @ - t.bookings[id].numberOfPeople]
  IN IF t1.status = "full" THEN [t1 EXCEPT !.status = "published"] ELSE t1

ModelCancelBooking(id) ==
  LET code == IF id > Len(trip.bookings) THEN 500 ELSE 200
  IN /\ WithinDeficit(trip, id)
     /\ last' = Response("Trip.cancelBooking", code, trip)
     /\ trip' = IF code = 200 THEN Save(trip, trip, ModelCancelBookingDoc(trip, id), now) ELSE trip
     /\ UNCHANGED <<users, now, reqs, otherDocs>>

\* ------------------------------------------- profiles and verification
\* user.save(): the schema validators run first; a value outside the enum
\* of verificationStatus is a ValidationError and nothing is written
ValidUser(doc) == doc.verificationStatus \in VerificationStatuses
SaveUser(us, u, doc) == IF ValidUser(doc) THEN [us EXCEPT ![u] = doc] ELSE us

\* guideController.updateGuideProfile / organiserController.updateOrganiserProfile
\* with a body of one profile field, holding a value or an empty one
UpdateProfileDoc(doc, field, hasValue) ==
  [doc EXCEPT !.filled = IF hasValue THEN @ \cup {field} ELSE @ \ {field}]

UpdateGuideProfile(u, field, hasValue) ==
  /\ users[u].role = "guide"
  /\ field \in RequiredFields("guide")
  /\ users' = [users EXCEPT ![u] = UpdateProfileDoc(@, field, hasValue)]
  /\ last' = Response("updateGuideProfile", 200, trip)
  /\ UNCHANGED <<trip, now, reqs, otherDocs>>

UpdateOrganiserProfile(u, field, hasValue) ==
  /\ users[u].role = "organiser"
  /\ field \in RequiredFields("organiser")
  /\ users' = [users EXCEPT ![u] = UpdateProfileDoc(@, field, hasValue)]
  /\ last' = Response("updateOrganiserProfile", 200, trip)
  /\ UNCHANGED <<trip, now, reqs, otherDocs>>

\* a verify that would decide a profile in any status
VerifyCodeAnyStatus(doc, role, action) ==
  IF doc.role # role THEN 404
  ELSE IF action \notin {"approve", "reject"} THEN 400
  ELSE 200

\* a self-submission that would ask for the license number alone
GcSubmitForVerificationCodeLicenseOnly(doc) ==
  IF doc.isVerified THEN 400
  ELSE IF doc.verificationStatus = "under_review" THEN 400
  ELSE IF "licenseNumber" \notin doc.filled THEN 400
  ELSE 200

\* guideController.submitForVerification, the guide u asking
GcSubmitForVerificationCode(doc) ==
  IF doc.isVerified THEN 400
  ELSE IF doc.verificationStatus = "under_review" THEN 400
  ELSE IF "licenseNumber" \notin doc.filled THEN 400
  ELSE IF "languagesSpoken" \notin doc.filled THEN 400
  ELSE IF "operatingDistricts" \notin doc.filled THEN 400
  ELSE 200

GcSubmitForVerificationDoc(doc) == [doc EXCEPT !.verificationStatus = "under_review"]

GcSubmitForVerification(u) ==
  LET code == GcSubmitForVerificationCode(users[u])
  IN /\ users[u].role = "guide"
     /\ last' = Response("guide.submitForVerification", code, trip)
     /\ users' = IF code = 200
                 THEN SaveUser(users, u, GcSubmitForVerificationDoc(users[u]))
                 ELSE users
     /\ UNCHANGED <<trip, now, reqs, otherDocs>>

\* organiserController.submitForVerification, the organiser u asking: an
\* already verified profile is answered 200 at once; the save of the
\* automatic verification is answered 500 when the validators refuse it
OcSubmitForVerificationDoc(doc) ==
  [doc EXCEPT !.verificationStatus = "verified", !.isVerified = TRUE]

OcSubmitForVerificationCode(doc) ==
  IF doc.isVerified THEN 200
  ELSE IF RequiredFields("organiser") \ doc.filled # {} THEN 400
  ELSE IF ~ValidUser(OcSubmitForVerificationDoc(doc)) THEN 500
  ELSE 200

OcSubmitForVerification(u) ==
  LET code == OcSubmitForVerificationCode(users[u])
  IN /\ users[u].role = "organiser"
     /\ last' = Response("organiser.submitForVerification", code, trip)
     /\ users' = IF ~users[u].isVerified /\ code # 400
                 THEN SaveUser(users, u, OcSubmitForVerificationDoc(users[u]))
                 ELSE users
     /\ UNCHANGED <<trip, now, reqs, otherDocs>>

\* adminController.verifyGuide / verifyOrganiser on the user u
VerifyActions == {"approve", "reject", "hold"}

VerifyCode(doc, role, action) ==
  IF doc.role # role THEN 404
  ELSE IF doc.verificationStatus # "under_review" THEN 400
  ELSE IF action \notin {"approve", "reject"} THEN 400
  ELSE 200

VerifyDoc(doc, action) ==
  IF action = "approve"
  THEN [doc EXCEPT !.isVerified = TRUE, !.verificationStatus = "approved"]
  ELSE [doc EXCEPT !.isVerified = FALSE, !.verificationStatus = "rejected"]

VerifyGuide(u, action) ==
  LET code == VerifyCode(users[u], "guide", action)
  IN /\ last' = Response("verifyGuide", code, trip)
     /\ users' = IF code = 200 THEN SaveUser(users, u, VerifyDoc(users[u], action)) ELSE users
     /\ UNCHANGED <<trip, now, reqs, otherDocs>>

VerifyOrganiser(u, action) ==
  LET code == VerifyCode(users[u], "organiser", action)
  IN /\ last' = Response("verifyOrganiser", code, trip)
     /\ users' = IF code = 200 THEN SaveUser(users, u, VerifyDoc(users[u], action)) ELSE users
     /\ UNCHANGED <<trip, now, reqs, otherDocs>>

\* adminController.updateUser with a body of {isActive}
UpdateUser(u, isActive) ==
  /\ users' = [users EXCEPT ![u].isActive = isActive]
  /\ last' = Response("updateUser", 200, trip)
  /\ UNCHANGED <<trip, now, reqs, otherDocs>>

\* ------------------------------------------------------ guide assignment
\* the whole guideAssignment object is replaced
AssignGuideDoc(t, g, clock) ==
  [t EXCEPT !.guide = g,
            !.gaStatus = "pending",
            !.assignedAt = clock,
            !.respondedAt = -1,
            !.rejectionReason = ""]

\* guideProfile.isAvailable: guideProfileSchema has no such path, the read
\* is undefined
IsAvailable(doc) == FALSE

\* tripController.assignGuide: the guide is looked up by role, isActive and
\* guideProfile.verificationStatus 'verified', then asked for isAvailable
AssignGuideCode(doc) ==
  IF ~(doc.role = "guide" /\ doc.isActive /\ doc.verificationStatus = "verified") THEN 404
  ELSE IF ~IsAvailable(doc) THEN 400
  ELSE 200

AssignGuide(g) ==
  LET code == AssignGuideCode(users[g])
  IN /\ last' = Response("assignGuide", code, trip)
     /\ trip' = IF code = 200 THEN Save(trip, trip, AssignGuideDoc(trip, g, now), now) ELSE trip
     /\ UNCHANGED <<users, now, reqs, otherDocs>>

OcAssignGuideCodeAnyActive(doc) ==
  IF ~(doc.role = "guide" /\ doc.isVerified) THEN 404 ELSE 200

\* organiserController.assignGuide: the guide is looked up by role, isActive
\* and guideProfile.isVerified
OcAssignGuideCode(doc) ==
  IF ~(doc.role = "guide" /\ doc.isActive /\ doc.isVerified) THEN 404 ELSE 200

OcAssignGuide(g) ==
  LET code == OcAssignGuideCode(users[g])
  IN /\ last' = Response("organiser.assignGuide", code, trip)
     /\ trip' = IF code = 200 THEN Save(trip, trip, AssignGuideDoc(trip, g, now), now) ELSE trip
     /\ UNCHANGED <<users, now, reqs, otherDocs>>

\* tripController.removeGuide
RemoveGuideDoc(t) ==
  [t EXCEPT !.guide = NoGuide,
            !.gaStatus = "not_assigned",
            !.assignedAt = -1,
            !.respondedAt = -1,
            !.rejectionReason = ""]

RemoveGuide ==
  LET code == IF trip.guide = NoGuide THEN 400 ELSE 200
  IN /\ last' = Response("removeGuide", code, trip)
     /\ trip' = IF code = 200 THEN Save(trip, trip, RemoveGuideDoc(trip), now) ELSE trip
     /\ UNCHANGED <<users, now, reqs, otherDocs>>

\* guideController.respondToAssignment, the guide g answering.  The handler
\* names the fields assignedGuide / guideStatus / guideRejectionReason; they
\* are taken to be the guide / guideAssignment.status / .rejectionReason
\* that assignGuide writes, so that an assignment can reach the guide at all.
ResponseActions == {"accept", "reject", "cancel"}

RespondToAssignmentCode(t, g, action) ==
  IF action \notin {"accept", "reject"} THEN 400
  ELSE IF t.guide # g \/ t.gaStatus # "pending" THEN 404
  ELSE 200

\* an answer that would clear the guide reference on accept and reject alike
RespondToAssignmentDocClearing(t, action, reason) ==
  [t EXCEPT !.gaStatus = IF action = "accept" THEN "accepted" ELSE "rejected",
            !.guide = NoGuide,
            !.rejectionReason = IF action = "accept" THEN @
                                ELSE IF reason = "" THEN "No reason provided" ELSE reason]

RespondToAssignmentDoc(t, action, reason) ==
  IF action = "accept"
  THEN [t EXCEPT !.gaStatus = "accepted"]
  ELSE [t EXCEPT !.gaStatus = "rejected",
                 !.rejectionReason = IF reason = "" THEN "No reason provided" ELSE reason]

\* User.findByIdAndUpdate(req.user.id, {$inc: {'guideProfile.totalTours': 1}})
IncTotalTours(us, g) == [us EXCEPT ![g].totalTours = @ + 1]

RespondToAssignment(g, action, reason) ==
  LET code == RespondToAssignmentCode(trip, g, action)
  IN /\ (code = 200 /\ action = "accept") => users[g].totalTours < MaxTours
     /\ last' = Response("respondToAssignment", code, trip)
     /\ users' = IF code = 200 /\ action = "accept" THEN IncTotalTours(users, g) ELSE users
     /\ trip' = IF code = 200
                THEN Save(trip, trip, RespondToAssignmentDoc(trip, action, reason), now)
                ELSE trip
     /\ UNCHANGED <<now, reqs, otherDocs>>

\* tripSchema.methods.respondToGuideAssignment(accept, reason)
RespondToGuideAssignmentDoc(t, accept, reason, clock) ==
  LET t1 == [t EXCEPT !.gaStatus = IF accept THEN "accepted" ELSE "rejected",
                      !.respondedAt = clock]
  IN IF ~accept /\ reason # ""
     THEN [t1 EXCEPT !.rejectionReason = reason, !.guide = NoGuide]
     ELSE t1

RespondToGuideAssignment(accept, reason) ==
  /\ last' = Response("Trip.respondToGuideAssignment", 200, trip)
  /\ trip' = Save(trip, trip, RespondToGuideAssignmentDoc(trip, accept, reason, now), now)
  /\ UNCHANGED <<users, now, reqs, otherDocs>>

\* ------------------------------------- two tourist requests in flight
\* A handler awaits the read and awaits the save, so another request's read
\* or save can fall between them.  ReadBookTrip and ReadCancelMyBooking are
\* a handler up to its trip.save(): the document read (base), the document
\* as changed in memory (mem) and the response it will send.  SaveRequest is
\* the trip.save() and the response; a VersionError is answered 500.
Loaded(op, code, refund, base, mem) ==
  [pc |-> "loaded", op |-> op, code |-> code, refund |-> refund, base |-> base, mem |-> mem]

\* bookings the requests in flight are about to push
InFlightPushes == Cardinality({q \in Procs : reqs[q].pc = "loaded" /\ reqs[q].op = "bookTrip"})

ReadBookTrip(p, u, n) ==
  LET code == BookTripCode(trip, n, now)
  IN /\ reqs[p].pc = "idle"
     /\ IF code = 201
        THEN /\ Len(trip.bookings) + InFlightPushes < MaxBookings
             /\ reqs' = [reqs EXCEPT ![p] = Loaded("bookTrip", 201, 0, trip, BookTripDoc(trip, u, n))]
             /\ last' = last
        ELSE /\ last' = Response("bookTrip", code, trip)
             /\ reqs' = reqs
     /\ UNCHANGED <<trip, users, now, otherDocs>>

ReadCancelMyBooking(p, u, id) ==
  LET code == CancelMyBookingCode(trip, u, id)
  IN /\ reqs[p].pc = "idle"
     /\ IF code = 200
        THEN /\ reqs' = [reqs EXCEPT ![p] =
                           Loaded("cancelMyBooking", 200,
                                  RefundAmount(trip.bookings[id].paidAmount,
                                               DaysUntilTrip(trip, now), trip.refundRules),
                                  trip, CancelMyBookingDoc(trip, id))]
             /\ last' = last
        ELSE /\ last' = Response("cancelMyBooking", code, trip)
             /\ reqs' = reqs
     /\ UNCHANGED <<trip, users, now, otherDocs>>

SaveRequest(p) ==
  /\ reqs[p].pc = "loaded"
  /\ LET r == reqs[p]
         failed == SaveConflict(trip, r.base, PreSave(r.mem, now))
     IN /\ trip' = Save(trip, r.base, r.mem, now)
        /\ last' = [op |-> r.op, code |-> IF failed THEN 500 ELSE r.code,
                    refund |-> IF failed THEN 0 ELSE r.refund, was |-> r.base.status]
  /\ reqs' = [reqs EXCEPT ![p] = Idle]
  /\ UNCHANGED <<users, now, otherDocs>>

\* --------------------------------------------------------------- accounts
\* In SpecAuth a clock tick is 5 minutes.
\* generatePasswordResetToken: Date.now() + 10 * 60 * 1000
ResetTicks == 2

AuthResponse(op, code, message) == [op |-> op, code |-> code, message |-> message]

\* User.findOne({ email }): the _id of the document, 0 for null
FindByEmail(docs, email) ==
  IF \E i \in DOMAIN docs : docs[i].email = email
  THEN CHOOSE i \in DOMAIN docs : docs[i].email = email
  ELSE 0

\* the emails a request can name: any address, and any email stored
KnownEmails ==
  {Email(a) : a \in Addresses \cup {AdminAddress}}
    \cup {accounts.docs[i].email : i \in DOMAIN accounts.docs}

\* the unique index on email: a save that would store an email twice throws
UniqueEmails(docs) ==
  \A i, j \in DOMAIN docs : docs[i].email = docs[j].email => i = j

\* register: User.findOne({ $or: [{ email }, { phone }] }) gives the first
\* such document, and the answer names the field of that document
RegisterAnswer(docs, email, phone) ==
  LET existing == {i \in DOMAIN docs : docs[i].email = email \/ docs[i].phone = phone}
      first == CHOOSE i \in existing : \A j \in existing : i <= j
  IN
  IF existing = {}
  THEN AuthResponse("register", 201, "Registration successful")
  ELSE IF docs[first].email = email
  THEN AuthResponse("register", 400, "Email already registered")
  ELSE AuthResponse("register", 400, "Phone number already registered")

Register(addr, phone, password) ==
  LET answer == RegisterAnswer(accounts.docs, Email(addr), phone) IN
  /\ answer.code = 201 => Len(accounts.docs) < MaxAccounts
  /\ accounts' = IF answer.code = 201
                 THEN [accounts EXCEPT !.docs =
                         Append(@, Account(Email(addr), phone, password, "tourist"))]
                 ELSE accounts
  /\ last' = answer
  /\ UNCHANGED <<trip, users, now, reqs, build, attraction, attractions>>

\* login: the answer
LoginAnswer(docs, email, password) ==
  LET id == FindByEmail(docs, email) IN
  IF id = 0
  THEN AuthResponse("login", 401, "Invalid email or password")
  ELSE IF ~docs[id].isActive
  THEN AuthResponse("login", 401, "Your account has been deactivated. Please contact support.")
  ELSE IF ~ComparePassword(docs[id], password)
  THEN AuthResponse("login", 401, "Invalid email or password")
  ELSE AuthResponse("login", 200, "Login successful")

Login(email, password) ==
  LET answer == LoginAnswer(accounts.docs, email, password)
      id == FindByEmail(accounts.docs, email)
  IN
  /\ accounts' = IF answer.code = 200
                 THEN [accounts EXCEPT !.docs[id].lastLogin = now]
                 ELSE accounts
  /\ last' = answer
  /\ UNCHANGED <<trip, users, now, reqs, build, attraction, attractions>>

\* userSchema.methods.generatePasswordResetToken, for the k-th token
GeneratePasswordResetToken(doc, token, clock) ==
  [doc EXCEPT !.passwordResetToken = Sha256(token),
              !.passwordResetExpire = clock + ResetTicks]

ForgotPassword(email) ==
  LET id == FindByEmail(accounts.docs, email)
      token == Len(accounts.sent) + 1
  IN
  /\ id # 0 => Len(accounts.sent) < MaxTokens
  /\ accounts' = IF id = 0 THEN accounts
                 ELSE [accounts EXCEPT
                         !.docs[id] = GeneratePasswordResetToken(@, token, now),
                         !.sent = Append(@, [to |-> id, at |-> now, used |-> FALSE])]
  /\ last' = IF id = 0
             THEN AuthResponse("forgotPassword", 404, "No user found with that email")
             ELSE AuthResponse("forgotPassword", 200, "Password reset instructions sent to email")
  /\ UNCHANGED <<trip, users, now, reqs, build, attraction, attractions>>

\* resetPassword: User.findOne({ passwordResetToken, passwordResetExpire: { $gt: Date.now() } })
FindByResetTokenUntil(docs, token, clock) ==
  LET found == {i \in DOMAIN docs : /\ docs[i].passwordResetToken = Sha256(token)
                                    /\ docs[i].passwordResetExpire >= clock}
  IN IF found = {} THEN 0 ELSE CHOOSE i \in found : TRUE

FindByResetToken(docs, token, clock) ==
  LET found == {i \in DOMAIN docs : /\ docs[i].passwordResetToken = Sha256(token)
                                    /\ docs[i].passwordResetExpire > clock}
  IN IF found = {} THEN 0 ELSE CHOOSE i \in found : TRUE

ResetPasswordDoc(doc, password) ==
  [doc EXCEPT !.password = Bcrypt(password),
              !.passwordResetToken = NoToken,
              !.passwordResetExpire = NoExpire]

ResetPassword(token, password) ==
  LET id == FindByResetToken(accounts.docs, token, now) IN
  /\ accounts' = IF id = 0 THEN accounts
                 ELSE [accounts EXCEPT !.docs[id] = ResetPasswordDoc(@, password),
                                       !.sent[token].used = TRUE]
  /\ last' = IF id = 0
             THEN AuthResponse("resetPassword", 400, "Invalid or expired reset token")
             ELSE AuthResponse("resetPassword", 200, "Password reset successful")
  /\ UNCHANGED <<trip, users, now, reqs, build, attraction, attractions>>

\* the soft delete of the three delete handlers.  Date.now() is in
\* milliseconds and two deletes of documents with the same email have a
\* registration (a bcrypt hash of 12 rounds) between them, so the stamp of
\* the n-th delete is n.
SoftDeleteDocKeepEmail(doc, stamp) == [doc EXCEPT !.isActive = FALSE]

SoftDeleteDoc(doc, stamp) ==
  [doc EXCEPT !.isActive = FALSE,
              !.email = [@ EXCEPT !.stamps = <<stamp>> \o @]]

SoftDelete(acc, id) ==
  [acc EXCEPT !.docs[id] = SoftDeleteDoc(@, acc.deletes + 1), !.deletes = @ + 1]

\* deleteAccount, by the logged-in user id
DeleteAccount(id, password) ==
  LET ok == ComparePassword(accounts.docs[id], password) IN
  /\ id \in DOMAIN accounts.docs
  /\ ok => accounts.deletes < MaxDeletes
  /\ accounts' = IF ok THEN SoftDelete(accounts, id) ELSE accounts
  /\ last' = IF ok
             THEN AuthResponse("deleteAccount", 200, "Account deleted successfully")
             ELSE AuthResponse("deleteAccount", 400, "Password is incorrect")
  /\ UNCHANGED <<trip, users, now, reqs, build, attraction, attractions>>

\* adminController.deleteUser and DELETE /api/users/:id, called by an admin
AdminDeleteCode(docs, caller, id) ==
  IF id \notin DOMAIN docs THEN 404
  ELSE IF id = caller THEN 400
  ELSE 200

DeleteUser(caller, id) ==
  LET code == AdminDeleteCode(accounts.docs, caller, id) IN
  /\ caller \in DOMAIN accounts.docs
  /\ accounts.docs[caller].role = "admin"
  /\ code = 200 => accounts.deletes < MaxDeletes
  /\ accounts' = IF code = 200 THEN SoftDelete(accounts, id) ELSE accounts
  /\ last' = AuthResponse("deleteUser", code,
               CASE code = 404 -> "User not found"
                 [] code = 400 -> "You cannot delete your own account"
                 [] OTHER -> "User deleted successfully")
  /\ UNCHANGED <<trip, users, now, reqs, build, attraction, attractions>>

RouteDeleteUser(caller, id) ==
  LET code == AdminDeleteCode(accounts.docs, caller, id) IN
  /\ caller \in DOMAIN accounts.docs
  /\ accounts.docs[caller].role = "admin"
  /\ code = 200 => accounts.deletes < MaxDeletes
  /\ accounts' = IF code = 200 THEN SoftDelete(accounts, id) ELSE accounts
  /\ last' = AuthResponse("DELETE /api/users/:id", code,
               CASE code = 404 -> "User not found"
                 [] code = 400 -> "You cannot delete your own account from here"
                 [] OTHER -> "User deleted successfully")
  /\ UNCHANGED <<trip, users, now, reqs, build, attraction, attractions>>

\* adminController.updateUser with { isActive } on an account
UpdateAccount(id, isActive) ==
  /\ accounts' = IF id \in DOMAIN accounts.docs
                 THEN [accounts EXCEPT !.docs[id].isActive = isActive]
                 ELSE accounts
  /\ last' = IF id \in DOMAIN accounts.docs
             THEN AuthResponse("updateUser", 200, "User updated successfully")
             ELSE AuthResponse("updateUser", 404, "User not found")
  /\ UNCHANGED <<trip, users, now, reqs, build, attraction, attractions>>

\* ---------------------------------------------------------------- reviews
Reviewers == Tourists \cup Organisers
\* req.body.rating in tenths; 0 stands for a missing rating as well
RatingInputs == {0, 10, 20, 30, 40, 45, 50, 60}

RECURSIVE SumRatings(_)
SumRatings(reviews) ==
  IF reviews = <<>> THEN 0 ELSE Head(reviews).rating + SumRatings(Tail(reviews))

CountRating(reviews, rating) ==
  Cardinality({i \in DOMAIN reviews : reviews[i].rating = rating})

\* (total / length).toFixed(1): the nearest tenth, the larger one on a tie
ToFixed1(total, length) == (2 * total + length) \div (2 * length)

\* attractionSchema.methods.calculateRatings
CalculateRatings(a) ==
  IF Len(a.reviews) = 0
  THEN [a EXCEPT !.ratings.overall = 0, !.ratings.totalReviews = 0]
  ELSE [a EXCEPT !.ratings.overall = ToFixed1(SumRatings(a.reviews), Len(a.reviews)),
                 !.ratings.totalReviews = Len(a.reviews),
                 !.ratings.distribution =
                    [five |-> CountRating(a.reviews, 50),
                     four |-> CountRating(a.reviews, 40),
                     three |-> CountRating(a.reviews, 30),
                     two |-> CountRating(a.reviews, 20),
                     one |-> CountRating(a.reviews, 10)]]

\* attractionSchema.pre('save'): the popularity score (no views, no
\* wishlists, not featured, not a UNESCO site)
PreSaveAttraction(a) ==
  [a EXCEPT !.popularityScore = a.ratings.overall * 20 + a.ratings.totalReviews * 20]

HasReviewed(a, u) == \E i \in DOMAIN a.reviews : a.reviews[i].user = u

AddReviewAnswerNoDuplicateCheck(a, u, rating) ==
  IF rating = 0 \/ rating < 10 \/ rating > 50
  THEN AuthResponse("addReview", 400, "Please provide a rating between 1 and 5")
  ELSE IF ~a.isActive
  THEN AuthResponse("addReview", 404, "Attraction not found")
  ELSE AuthResponse("addReview", 201, "Review added successfully")

AddReviewAnswer(a, u, rating) ==
  IF rating = 0 \/ rating < 10 \/ rating > 50
  THEN AuthResponse("addReview", 400, "Please provide a rating between 1 and 5")
  ELSE IF ~a.isActive
  THEN AuthResponse("addReview", 404, "Attraction not found")
  ELSE IF HasReviewed(a, u)
  THEN AuthResponse("addReview", 400, "You have already reviewed this attraction")
  ELSE AuthResponse("addReview", 201, "Review added successfully")

AddReviewDoc(a, u, rating) ==
  CalculateRatings([a EXCEPT !.reviews = Append(@, [user |-> u, rating |-> rating])])

AddReview(u, rating) ==
  LET answer == AddReviewAnswer(attraction, u, rating) IN
  /\ attraction' = IF answer.code = 201
                   THEN PreSaveAttraction(AddReviewDoc(attraction, u, rating))
                   ELSE attraction
  /\ last' = answer
  /\ UNCHANGED <<trip, users, now, reqs, build, accounts, attractions>>

\* attractionController: the admin's activate / deactivate toggle
ToggleActive ==
  /\ attraction' = PreSaveAttraction([attraction EXCEPT !.isActive = ~@])
  /\ last' = AuthResponse("toggleActive", 200,
                          IF attraction.isActive THEN "Attraction deactivated successfully"
                          ELSE "Attraction activated successfully")
  /\ UNCHANGED <<trip, users, now, reqs, build, accounts, attractions>>

\* ------------------------------------------------------- attraction slugs
\* names and cities are sequences of characters
AttractionNames == {<<"a">>, <<"A">>, <<"a", " ", "b">>, <<"a", "-", "b">>, <<"!", "a">>}
Cities == {<<"c">>, <<"C">>, <<"b", "-", "c">>}

\* String.prototype.toLowerCase
LowerChar(c) == CASE c = "A" -> "a" [] c = "B" -> "b" [] c = "C" -> "c" [] OTHER -> c
ToLowerCase(str) == [i \in DOMAIN str |-> LowerChar(str[i])]

IsSlugChar(c) == c \in {"a", "b", "c"}

\* .replace(/[^a-z0-9]+/g, '-'): every run of other characters becomes one '-'
RECURSIVE ReplaceRuns(_)
ReplaceRuns(str) ==
  IF str = <<>> THEN <<>>
  ELSE IF IsSlugChar(Head(str)) THEN <<Head(str)>> \o ReplaceRuns(Tail(str))
  ELSE IF Len(str) > 1 /\ ~IsSlugChar(str[2]) THEN ReplaceRuns(Tail(str))
  ELSE <<"-">> \o ReplaceRuns(Tail(str))

\* .replace(/^-+|-+$/g, ''): after ReplaceRuns a '-' is never doubled
TrimDashes(str) ==
  LET from == IF str # <<>> /\ Head(str) = "-" THEN 2 ELSE 1
      upto == IF Len(str) >= from /\ str[Len(str)] = "-" THEN Len(str) - 1 ELSE Len(str)
  IN SubSeq(str, from, upto)

\* attractionSchema.pre('save'): the slug of a new document
SlugOf(name, city) ==
  TrimDashes(ReplaceRuns(ToLowerCase(name))) \o <<"-">> \o ToLowerCase(city)

FreeIds == (1..MaxAttractions) \ {a.id : a \in attractions}

\* createAttraction: Attraction.create; the unique index on slug refuses a
\* second document with a stored slug (duplicate key error)
CreateAttraction(name, city) ==
  LET slug == SlugOf(name, city)
      taken == \E a \in attractions : a.slug = slug
  IN /\ ~taken => FreeIds # {}
     /\ attractions' = IF taken THEN attractions
                       ELSE attractions \cup
                              {[id |-> CHOOSE i \in FreeIds : TRUE,
                                name |-> name, city |-> city, slug |-> slug]}
     /\ last' = IF taken
                THEN AuthResponse("createAttraction", 500, "E11000 duplicate key error")
                ELSE AuthResponse("createAttraction", 201, "Attraction created successfully")
     /\ UNCHANGED <<trip, users, now, reqs, build, accounts, attraction>>

\* updateAttraction with { name } in the body: findByIdAndUpdate, no save hook
UpdateAttraction(id, name) ==
  LET found == \E a \in attractions : a.id = id IN
  /\ attractions' = {IF a.id = id THEN [a EXCEPT !.name = name] ELSE a : a \in attractions}
  /\ last' = IF found
             THEN AuthResponse("updateAttraction", 200, "Attraction updated successfully")
             ELSE AuthResponse("updateAttraction", 404, "Attraction not found")
  /\ UNCHANGED <<trip, users, now, reqs, build, accounts, attraction>>

\* deleteAttraction: findByIdAndDelete
DeleteAttraction(id) ==
  LET found == \E a \in attractions : a.id = id IN
  /\ attractions' = {a \in attractions : a.id # id}
  /\ last' = IF found
             THEN AuthResponse("deleteAttraction", 200, "Attraction deleted successfully")
             ELSE AuthResponse("deleteAttraction", 404, "Attraction not found")
  /\ UNCHANGED <<trip, users, now, reqs, build, accounts, attraction>>

Tick ==
  /\ now < MaxNow
  /\ now' = now + 1
  /\ UNCHANGED <<trip, users, last, reqs, otherDocs>>

Init ==
  /\ trip = NewTrip
  /\ users = NewUsers
  /\ now = 0
  /\ last = NoResponse
  /\ reqs = [p \in Procs |-> Idle]
  /\ accounts = NewAccounts
  /\ attraction = NewAttraction
  /\ attractions = {}
  /\ build = FirstBuild

\* what the request bodies are drawn from
StatusInputs == {"", "confirmed", "completed", "cancelled"}
PaymentInputs == {"", "completed"}
PaidInputs == {-1}

\* Spec: capacity and trip status under every way of adding and cancelling a
\* booking, cancelTrip, publishTrip and the passing of time
Next ==
  \/ PublishTrip
  \/ \E u \in Tourists, n \in GroupSizes : TcAddBooking(u, n)
  \/ \E u \in Tourists, n \in GroupSizes : BookTrip(u, n)
  \/ \E u \in Tourists, n \in GroupSizes : ModelAddBooking(u, n)
  \/ \E id \in BookingIds, refund \in BOOLEAN : TcRemoveBooking(id, refund)
  \/ \E u \in Tourists, id \in BookingIds : CancelMyBooking(u, id)
  \/ \E id \in BookingIds : ModelCancelBooking(id)
  \/ CancelTrip
  \/ Tick

Spec == Init /\ [][Next]_vars

\* SpecSeq: the controllers' add and cancel requests alone, one at a time
NextSeq ==
  \/ PublishTrip
  \/ \E u \in Tourists, n \in GroupSizes : TcAddBooking(u, n)
  \/ \E u \in Tourists, n \in GroupSizes : BookTrip(u, n)
  \/ \E id \in BookingIds, refund \in BOOLEAN : TcRemoveBooking(id, refund)
  \/ \E u \in Tourists, id \in BookingIds : CancelMyBooking(u, id)

SpecSeq == Init /\ [][NextSeq]_vars

\* SpecStatus: the requests that write a booking's bookingStatus
NextStatus ==
  \/ \E u \in Tourists, n \in GroupSizes : TcAddBooking(u, n)
  \/ \E id \in BookingIds, bs \in StatusInputs, ps \in PaymentInputs, pa \in PaidInputs :
        TcUpdateBooking(id, bs, ps, pa)
  \/ \E id \in BookingIds, refund \in BOOLEAN : TcRemoveBooking(id, refund)
  \/ \E u \in Tourists, id \in BookingIds : CancelMyBooking(u, id)
  \/ CancelTrip

SpecStatus == Init /\ [][NextStatus]_vars

\* SpecRefund: the tourist cancellation on a published trip that holds one
\* booking of u1, with the start date, the amount paid and the refundRules
\* drawn
RuleSet == [daysBeforeTrip : {2, 7}, refundPercent : {40, 80}]
RuleLists == UNION {[1..k -> RuleSet] : k \in 0..MaxRules}
PaidAmounts == {0, 200}

InitRefund ==
  /\ \E start \in 0..(MaxLeadDays * TicksPerDay), rules \in RuleLists, paid \in PaidAmounts :
       trip = [NewTrip EXCEPT
                 !.status = "published",
                 !.startDate = start,
                 !.endDate = start + 1,
                 !.refundRules = rules,
                 !.bookings = <<[Booking("u1", 1, NewTrip.pricePerPerson)
                                   EXCEPT !.paidAmount = paid]>>,
                 !.currentBookings = 1,
                 !.availableSlots = MaxPeople - 1,
                 !.bookingsCount = 1,
                 !.v = 1]
  /\ users = NewUsers
  /\ now = 0
  /\ last = NoResponse
  /\ reqs = [p \in Procs |-> Idle]
  /\ accounts = NewAccounts
  /\ attraction = NewAttraction
  /\ attractions = {}
  /\ build = FirstBuild

NextRefund == \E u \in Tourists, id \in BookingIds : CancelMyBooking(u, id)

SpecRefund == InitRefund /\ [][NextRefund]_vars

\* SpecGuide: the assignment of a guide and the guide's answer, on a trip
\* that is published and then ends; both guides have been approved
VerifiedGuide ==
  [NewUser("guide") EXCEPT !.isVerified = TRUE,
                           !.verificationStatus = "approved",
                           !.filled = RequiredFields("guide")]

InitGuide ==
  /\ trip = NewTrip
  /\ users = [u \in Users |-> IF u \in Guides THEN VerifiedGuide ELSE NewUsers[u]]
  /\ now = 0
  /\ last = NoResponse
  /\ reqs = [p \in Procs |-> Idle]
  /\ accounts = NewAccounts
  /\ attraction = NewAttraction
  /\ attractions = {}
  /\ build = FirstBuild

NextGuide ==
  \/ PublishTrip
  \/ \E g \in Users : AssignGuide(g)
  \/ \E g \in Users : OcAssignGuide(g)
  \/ RemoveGuide
  \/ \E g \in Guides, action \in ResponseActions, reason \in Reasons :
        RespondToAssignment(g, action, reason)
  \/ \E accept \in BOOLEAN, reason \in Reasons : RespondToGuideAssignment(accept, reason)
  \/ Tick

SpecGuide == InitGuide /\ [][NextGuide]_vars

\* SpecAssign: the organiser's two assignGuide endpoints against guides whose
\* verification and activity change: g1 has been approved, g2 has submitted
\* a complete profile and waits for the admin
InitAssign ==
  /\ trip = NewTrip
  /\ users = [NewUsers EXCEPT
                !["g1"] = VerifiedGuide,
                !["g2"] = [VerifiedGuide EXCEPT !.isVerified = FALSE,
                                                !.verificationStatus = "under_review"]]
  /\ now = 0
  /\ last = NoResponse
  /\ reqs = [p \in Procs |-> Idle]
  /\ accounts = NewAccounts
  /\ attraction = NewAttraction
  /\ attractions = {}
  /\ build = FirstBuild

NextAssign ==
  \/ \E g \in Users : AssignGuide(g)
  \/ \E g \in Users : OcAssignGuide(g)
  \/ RemoveGuide
  \/ \E u \in Users, action \in VerifyActions : VerifyGuide(u, action)
  \/ \E u \in Guides : GcSubmitForVerification(u)
  \/ \E u \in Users, isActive \in BOOLEAN : UpdateUser(u, isActive)

SpecAssign == InitAssign /\ [][NextAssign]_vars

\* SpecVerify: profile edits, self-submission and the admin's decision
NextVerify ==
  \/ \E u \in Guides, field \in RequiredFields("guide"), hasValue \in BOOLEAN :
        UpdateGuideProfile(u, field, hasValue)
  \/ \E u \in Organisers, field \in RequiredFields("organiser"), hasValue \in BOOLEAN :
        UpdateOrganiserProfile(u, field, hasValue)
  \/ \E u \in Guides : GcSubmitForVerification(u)
  \/ \E u \in Organisers : OcSubmitForVerification(u)
  \/ \E u \in Users, action \in VerifyActions : VerifyGuide(u, action)
  \/ \E u \in Users, action \in VerifyActions : VerifyOrganiser(u, action)

SpecVerify == Init /\ [][NextVerify]_vars

\* SpecAuth: registration, login, deactivation and the soft deletes
NextAuth ==
  \/ \E addr \in Addresses, phone \in Phones, password \in Passwords :
       Register(addr, phone, password)
  \/ \E email \in KnownEmails, password \in Passwords : Login(email, password)
  \/ \E id \in 1..MaxAccounts, password \in Passwords : DeleteAccount(id, password)
  \/ \E id \in 1..(MaxAccounts + 1) : DeleteUser(AdminId, id)
  \/ \E id \in 1..(MaxAccounts + 1) : RouteDeleteUser(AdminId, id)
  \/ \E id \in 1..MaxAccounts, isActive \in BOOLEAN : UpdateAccount(id, isActive)

SpecAuth == Init /\ [][NextAuth]_vars

\* SpecReset: registration and the password reset, with the clock
NextReset ==
  \/ \E addr \in Addresses, phone \in Phones, password \in Passwords :
       Register(addr, phone, password)
  \/ \E email \in KnownEmails : ForgotPassword(email)
  \/ \E token \in 1..(MaxTokens + 1), password \in Passwords : ResetPassword(token, password)
  \/ Tick

SpecReset == Init /\ [][NextReset]_vars

\* SpecReview: reviews of one attraction
NextReview ==
  \/ \E u \in Reviewers, rating \in RatingInputs : AddReview(u, rating)
  \/ ToggleActive

SpecReview == Init /\ [][NextReview]_vars

\* SpecCancel: cancelTrip through both controllers, under either of the two
\* tripSchema definitions of Trip.js
InitCancel ==
  /\ trip \in {[NewTrip EXCEPT !.schema = k] : k \in {1, 2}}
  /\ users = NewUsers
  /\ now = 0
  /\ last = NoResponse
  /\ reqs = [p \in Procs |-> Idle]
  /\ accounts = NewAccounts
  /\ attraction = NewAttraction
  /\ attractions = {}
  /\ build = FirstBuild

NextCancel ==
  \/ PublishTrip
  \/ \E u \in Tourists, n \in GroupSizes : TcAddBooking(u, n)
  \/ \E id \in BookingIds, bs \in StatusInputs : TcUpdateBooking(id, bs, "", -1)
  \/ \E status \in UpdateTripStatuses : UpdateTrip(status)
  \/ CancelTrip
  \/ OcCancelTrip
  \/ Tick

SpecCancel == InitCancel /\ [][NextCancel]_vars

\* SpecSlug: the admin's create, update and delete of attractions
NextSlug ==
  \/ \E name \in AttractionNames, city \in Cities : CreateAttraction(name, city)
  \/ \E id \in 1..MaxAttractions, name \in AttractionNames : UpdateAttraction(id, name)
  \/ \E id \in 1..MaxAttractions : DeleteAttraction(id)

SpecSlug == Init /\ [][NextSlug]_vars

\* SpecConc: bookTrip and cancelMyBooking requests of two connections,
\* interleaved at their awaits, on a trip the organiser publishes
NextConc ==
  \/ PublishTrip
  \/ \E p \in Procs, u \in Tourists, n \in GroupSizes : ReadBookTrip(p, u, n)
  \/ \E p \in Procs, u \in Tourists, id \in BookingIds : ReadCancelMyBooking(p, u, id)
  \/ \E p \in Procs : SaveRequest(p)

SpecConc == Init /\ [][NextConc]_vars

\* ================================================================ claims
AddOps == {"addBooking", "bookTrip", "Trip.addBooking"}
ControllerAddOps == {"addBooking", "bookTrip"}
CancelOps == {"removeBooking", "cancelMyBooking", "Trip.cancelBooking"}

\* the step is an add-booking request for n people by u, through any of the
\* three ways of adding a booking
AddRequest(u, n) == TcAddBooking(u, n) \/ BookTrip(u, n) \/ ModelAddBooking(u, n)

\* C1: after any sequence of addBooking, bookTrip, removeBooking and
\* cancelMyBooking requests, capacity.currentBookings equals the sum of
\* numberOfPeople over the bookings that are not cancelled.
C1_CurrentBookingsIsActiveSum ==
  trip.currentBookings = ActivePeople(trip.bookings)

\* C2: an add-booking request whose numberOfPeople exceeds
\* maxPeople - currentBookings is answered with an error and leaves the trip
\* (bookings, currentBookings, analytics, status) as it was.
C2_OverCapacityRejected ==
  [][\A u \in Tourists, n \in GroupSizes :
       (AddRequest(u, n) /\ n > MaxPeople - trip.currentBookings)
         => (last'.code >= 400 /\ trip' = trip)]_vars

\* C3 as stated: a booking accepted by a controller that brings currentBookings
\* to maxPeople stores status 'full', and a cancellation on a 'full' trip
\* stores 'published'.
C3_FullThenPublished ==
  [][/\ (last'.op \in ControllerAddOps /\ last'.code = 201
           /\ trip'.currentBookings = MaxPeople) => trip'.status = "full"
     /\ (last'.op \in CancelOps /\ last'.code = 200
           /\ trip.status = "full") => trip'.status = "published"]_vars

\* C3 as amended: a booking accepted by a controller that brings
\* currentBookings to maxPeople stores 'full' unless the end date has passed,
\* when the hook stores 'expired'; a cancellation on a 'full' trip stores
\* 'expired' when the end date has passed, 'full' when currentBookings is still
\* at or above maxPeople after it, and 'published' otherwise.
C3_FullUnlessExpired ==
  [][/\ (last'.op \in ControllerAddOps /\ last'.code = 201
           /\ trip'.currentBookings >= MaxPeople)
         => trip'.status = IF now > trip.endDate THEN "expired" ELSE "full"
     /\ (last'.op \in CancelOps /\ last'.code = 200 /\ trip.status = "full")
         => trip'.status = IF now > trip.endDate THEN "expired"
                           ELSE IF trip'.currentBookings >= MaxPeople THEN "full"
                           ELSE "published"]_vars

\* C3 witness: a booking of a full trip was cancelled and the trip is
\* published again
C3_Reopened ==
  /\ last.op \in CancelOps /\ last.code = 200 /\ last.was = "full"
  /\ trip.status = "published"

\* C7: a booking that is 'completed' never becomes 'cancelled', and a
\* 'cancelled' booking never returns to another status.
C7_BookingStatusLifecycle ==
  [][\A i \in 1..Len(trip.bookings) :
       /\ trip.bookings[i].bookingStatus = "completed"
            => trip'.bookings[i].bookingStatus # "cancelled"
       /\ trip.bookings[i].bookingStatus = "cancelled"
            => trip'.bookings[i].bookingStatus = "cancelled"]_vars

\* C8: a successful add-booking raises currentBookings by numberOfPeople,
\* analytics.bookingsCount by 1 and analytics.revenue by the booking's
\* totalAmount.
C8_AddBookingCounters ==
  [][\A u \in Tourists, n \in GroupSizes :
       (AddRequest(u, n) /\ last'.code = 201)
         => /\ trip'.currentBookings = trip.currentBookings + n
            /\ trip'.bookingsCount = trip.bookingsCount + 1
            /\ trip'.revenue = trip.revenue
                 + trip'.bookings[Len(trip'.bookings)].totalAmount]_vars

\* the step is a tourist cancellation of booking id that succeeded
Cancelled(u, id) == CancelMyBooking(u, id) /\ last'.code = 200

\* C5: with no refundRules configured the refund is 90% of paidAmount when
\* more than 7 days remain until startDate, 50% when more than 3 and at most
\* 7 days remain, and 0 otherwise (amounts in hundredths, time in ticks).
C5_DefaultTiers ==
  [][\A u \in Tourists, id \in BookingIds :
       (Cancelled(u, id) /\ trip.refundRules = <<>>)
         => LET left == trip.startDate - now
                paid == trip.bookings[id].paidAmount
            IN last'.refund = IF left > 7 * TicksPerDay THEN 90 * paid
                              ELSE IF left > 3 * TicksPerDay THEN 50 * paid
                              ELSE 0]_vars

\* C5 witness: a cancellation one tick more than 7 days before the start,
\* under the default policy, refunded 90% of a non-zero payment
C5_NinetyPercent ==
  /\ last.op = "cancelMyBooking" /\ last.code = 200
  /\ trip.refundRules = <<>>
  /\ trip.startDate - now = 7 * TicksPerDay + 1
  /\ trip.bookings[1].paidAmount > 0
  /\ last.refund = 90 * trip.bookings[1].paidAmount

\* the rules of `rules` the days reach, and those of them with the greatest
\* daysBeforeTrip
Qualifying(rules, days) == {i \in DOMAIN rules : rules[i].daysBeforeTrip <= days}
Greatest(rules, days) ==
  {i \in Qualifying(rules, days) :
     \A j \in Qualifying(rules, days) : rules[j].daysBeforeTrip <= rules[i].daysBeforeTrip}
Reordered(rules, p) == [i \in DOMAIN rules |-> rules[p[i]]]
DistinctThresholds(rules) ==
  \A i, j \in DOMAIN rules : i # j => rules[i].daysBeforeTrip # rules[j].daysBeforeTrip

\* C6 as stated: with refundRules configured the refund percentage is that of
\* the rule with the greatest daysBeforeTrip not above the days until the
\* start (0 when there is none), and it is the same for every order of the
\* rules.
C6_GreatestRuleAnyOrder ==
  [][\A u \in Tourists, id \in BookingIds :
       (Cancelled(u, id) /\ trip.refundRules # <<>>)
         => LET rules == trip.refundRules
                days == DaysUntilTrip(trip, now)
                paid == trip.bookings[id].paidAmount
            IN /\ Qualifying(rules, days) = {} => last'.refund = 0
               /\ \A i \in Greatest(rules, days) :
                     last'.refund = paid * rules[i].refundPercent
               /\ \A p \in Permutations(DOMAIN rules) :
                     RefundAmount(paid, days, Reordered(rules, p)) = last'.refund]_vars

\* C6 as amended: the days are those until the start rounded up to whole
\* days; the percentage is that of the first listed among the rules with the
\* greatest daysBeforeTrip not above them (0 when there is none), and it is
\* the same for every order of the rules when no two share a daysBeforeTrip.
C6_FirstListedGreatestRule ==
  [][\A u \in Tourists, id \in BookingIds :
       (Cancelled(u, id) /\ trip.refundRules # <<>>)
         => LET rules == trip.refundRules
                days == CeilDiv(trip.startDate - now, TicksPerDay)
                paid == trip.bookings[id].paidAmount
                g == Greatest(rules, days)
                first == CHOOSE i \in g : \A j \in g : i <= j
            IN /\ g = {} => last'.refund = 0
               /\ g # {} => last'.refund = paid * rules[first].refundPercent
               /\ DistinctThresholds(rules) =>
                    \A p \in Permutations(DOMAIN rules) :
                       RefundAmount(paid, days, Reordered(rules, p)) = last'.refund]_vars

\* C6 witness: a cancellation under two rules listed in ascending order of
\* daysBeforeTrip was refunded by the second one
C6_SecondRuleApplied ==
  /\ last.op = "cancelMyBooking" /\ last.code = 200
  /\ Len(trip.refundRules) = 2
  /\ trip.refundRules[1].daysBeforeTrip < trip.refundRules[2].daysBeforeTrip
  /\ trip.refundRules[1].refundPercent # trip.refundRules[2].refundPercent
  /\ trip.bookings[1].paidAmount > 0
  /\ last.refund = trip.bookings[1].paidAmount * trip.refundRules[2].refundPercent

\* a guide's answer to a pending assignment: through the endpoint, answered
\* 200, or through the Trip method on an assignment that is pending
EndpointAnswer(g, action, reason) ==
  RespondToAssignment(g, action, reason) /\ last'.code = 200
MethodAnswer(accept, reason) ==
  trip.gaStatus = "pending" /\ RespondToGuideAssignment(accept, reason)

\* C9: a guide's 'reject' of a pending assignment, with or without a
\* reason, clears the trip's guide reference and records a rejection reason
\* on the trip.
C9_RejectClearsGuide ==
  [][\A g \in Guides, reason \in Reasons :
       (EndpointAnswer(g, "reject", reason) \/ MethodAnswer(FALSE, reason))
         => (trip'.guide = NoGuide /\ trip'.rejectionReason # "")]_vars

StatusOnSave(t, clock) ==
  IF clock > t.endDate /\ t.status \notin {"completed", "cancelled"} THEN "expired"
  ELSE IF t.currentBookings >= MaxPeople /\ t.status = "published" THEN "full"
  ELSE t.status

Accepted(t, t2, clock) ==
  /\ t2.guide = t.guide
  /\ t2.gaStatus = "accepted"
  /\ t2.status = StatusOnSave(t, clock)
  /\ t2.availableSlots = MaxPeople - t.currentBookings
  /\ \A f \in DOMAIN t \ {"gaStatus", "status", "availableSlots", "respondedAt"} :
       t2[f] = t[f]

Drift(t) == t.currentBookings - ActivePeople(t.bookings)
AllIdle == \A p \in Procs : reqs[p].pc = "idle"

\* C4: two interleaved bookTrip / cancelMyBooking requests reach a state in
\* which currentBookings differs from the head-count of the non-cancelled
\* bookings, with that head-count above maxPeople (the witness), and no
\* operation repairs it: a save by a request that read the stored document
\* as it now is, and publishTrip, leave the difference exactly as it was.
C4_DriftIsNeverRepaired ==
  [][/\ \A p \in Procs :
          (SaveRequest(p) /\ reqs[p].base = trip) => Drift(trip') = Drift(trip)
     /\ PublishTrip => Drift(trip') = Drift(trip)]_vars

\* C4 witness: both requests have answered, the counter and the bookings
\* disagree, more people are booked than the trip holds, and a bookTrip
\* request that came afterwards was answered 400 from the drifted counter
C4_DriftedOverCapacity ==
  /\ AllIdle
  /\ Drift(trip) # 0
  /\ ActivePeople(trip.bookings) > MaxPeople
  /\ last.op = "bookTrip"
  /\ last.code = 400

\* C11: a guide's answer is applied only to an assignment that is 'pending'
\* and addressed to that guide, and moves it to 'accepted' or 'rejected'; an
\* answer to an assignment in any other status, or by another guide, is
\* refused with an error and changes nothing.
C11_OnlyPendingAnswered ==
  [][/\ \A g \in Guides, action \in ResponseActions, reason \in Reasons :
          RespondToAssignment(g, action, reason)
            => IF trip.gaStatus = "pending" /\ trip.guide = g /\ action \in {"accept", "reject"}
               THEN /\ last'.code = 200
                    /\ trip'.gaStatus = IF action = "accept" THEN "accepted" ELSE "rejected"
               ELSE /\ last'.code >= 400
                    /\ trip' = trip
                    /\ users' = users
     /\ \A accept \in BOOLEAN, reason \in Reasons :
          RespondToGuideAssignment(accept, reason)
            => IF trip.gaStatus = "pending"
               THEN trip'.gaStatus = IF accept THEN "accepted" ELSE "rejected"
               ELSE trip' = trip]_vars

\* C12: assignGuide (either endpoint) succeeds only for a target that has
\* role guide, is active and is verified, and then sets the trip's guide and
\* makes the assignment 'pending'; for any other target it is refused with
\* an error and the trip's guide and assignment status are unchanged.
AssignOutcome(g) ==
  IF last'.code = 200
  THEN /\ users[g].role = "guide" /\ users[g].isActive /\ users[g].isVerified
       /\ trip'.guide = g
       /\ trip'.gaStatus = "pending"
  ELSE /\ last'.code >= 400
       /\ trip'.guide = trip.guide
       /\ trip'.gaStatus = trip.gaStatus

C12_AssignOnlyVerifiedActiveGuide ==
  [][\A g \in Users : (AssignGuide(g) \/ OcAssignGuide(g)) => AssignOutcome(g)]_vars

\* C12 witness: g2, approved by the admin after the start, has just been
\* assigned, while the approved guide g1 is deactivated
C12_AssignedApprovedGuide ==
  /\ last.op = "organiser.assignGuide"
  /\ last.code = 200
  /\ trip.guide = "g2"
  /\ trip.gaStatus = "pending"
  /\ users["g2"].isVerified
  /\ ~users["g1"].isActive

\* an admin decision on the profile of u, answered 200
Decided(u) ==
  \E action \in {"approve", "reject"} :
    (VerifyGuide(u, action) \/ VerifyOrganiser(u, action)) /\ last'.code = 200

\* C13: verificationStatus leaves 'under_review' only through an admin
\* approve/reject, and becomes 'approved' or 'rejected' only through one
\* taken while the status is 'under_review'; a verify request on a profile
\* that is not 'under_review', or with another action, is refused and
\* changes nothing.
C13_OnlyAdminDecidesReview ==
  [][\A u \in Users :
       /\ (users[u].verificationStatus = "under_review"
             /\ users'[u].verificationStatus # "under_review") => Decided(u)
       /\ (users'[u].verificationStatus \in {"approved", "rejected"}
             /\ users'[u].verificationStatus # users[u].verificationStatus)
            => (users[u].verificationStatus = "under_review" /\ Decided(u))
       /\ \A action \in VerifyActions :
            ((VerifyGuide(u, action) \/ VerifyOrganiser(u, action))
               /\ (users[u].verificationStatus # "under_review"
                     \/ action \notin {"approve", "reject"}))
              => (last'.code >= 400 /\ users' = users)]_vars

\* C13 witness: the admin has just approved a guide that was under review
C13_GuideApproved ==
  /\ last.op = "verifyGuide"
  /\ last.code = 200
  /\ \E u \in Guides : users[u].verificationStatus = "approved" /\ users[u].isVerified
  /\ \A u \in Users : users[u].verificationStatus # "under_review"

\* C14 as stated: a self-submission is refused, with verificationStatus and
\* isVerified unchanged, when a required field is missing (the license number
\* for a guide; company name, type or registration number for an organiser)
\* or the profile is already verified or under review; otherwise a guide's
\* status becomes 'under_review' with isVerified still false.
Refusable(doc) ==
  \/ doc.isVerified
  \/ doc.verificationStatus = "under_review"
  \/ (doc.role = "guide" /\ "licenseNumber" \notin doc.filled)
  \/ (doc.role = "organiser" /\ RequiredFields("organiser") \ doc.filled # {})

C14_SubmissionNeedsLicense ==
  [][\A u \in Users :
       (GcSubmitForVerification(u) \/ OcSubmitForVerification(u))
         => IF Refusable(users[u])
            THEN last'.code >= 400 /\ users' = users
            ELSE users[u].role = "guide"
                   => (users'[u].verificationStatus = "under_review" /\ ~users'[u].isVerified)]_vars

\* C14, amended: a guide's self-submission is refused, with
\* verificationStatus and isVerified unchanged, when the profile is already
\* verified or under review or when the license number, the languages or
\* the operating districts are missing, and otherwise makes the status
\* 'under_review' with isVerified still false; an organiser's is refused,
\* with both unchanged, when company name, company type or registration
\* number is missing, and changes nothing on a profile already verified.
C14_SubmissionNeedsAllFields ==
  [][\A u \in Users :
       /\ GcSubmitForVerification(u)
            => IF \/ users[u].isVerified
                  \/ users[u].verificationStatus = "under_review"
                  \/ RequiredFields("guide") \ users[u].filled # {}
               THEN last'.code >= 400 /\ users' = users
               ELSE /\ last'.code = 200
                    /\ users' = [users EXCEPT ![u].verificationStatus = "under_review"]
                    /\ ~users'[u].isVerified
       /\ OcSubmitForVerification(u)
            => /\ users[u].isVerified => users' = users
               /\ (~users[u].isVerified /\ RequiredFields("organiser") \ users[u].filled # {})
                    => (last'.code >= 400 /\ users' = users)]_vars

\* C14 witness: a guide with a license number but no language and no
\* district has just been refused
C14_RefusedWithLicense ==
  /\ last.op = "guide.submitForVerification"
  /\ last.code = 400
  /\ \A u \in Guides : /\ users[u].filled = {"licenseNumber"}
                       /\ users[u].verificationStatus = "pending"
                       /\ ~users[u].isVerified

\* C15: an organiser's self-submission with all required fields present
\* skips 'under_review' and is persisted as verified: afterwards the stored
\* profile has isVerified = true and a verificationStatus among pending,
\* under_review, approved, rejected.
C15_OrganiserAutoVerified ==
  [][\A u \in Organisers :
       (OcSubmitForVerification(u)
          /\ ~users[u].isVerified
          /\ RequiredFields("organiser") \subseteq users[u].filled)
         => (users'[u].isVerified /\ users'[u].verificationStatus \in VerificationStatuses)]_vars

\* C16: login fails uniformly: every login attempt that does not succeed is
\* answered 401 'Invalid email or password', whether the email is unknown,
\* the password is wrong, or the account is in any state.
C16_LoginFailsUniformly ==
  [][\A email \in KnownEmails, password \in Passwords :
       (Login(email, password) /\ last'.code # 200)
         => (last'.code = 401 /\ last'.message = "Invalid email or password")]_vars

\* token k can be redeemed: it was handed out less than the reset window
\* ago, has not been redeemed, and no later token went to the same account
Redeemable(acc, token, clock) ==
  /\ token \in DOMAIN acc.sent
  /\ clock < acc.sent[token].at + ResetTicks
  /\ ~acc.sent[token].used
  /\ \A k \in DOMAIN acc.sent : k > token => acc.sent[k].to # acc.sent[token].to

\* C17: resetPassword accepts a token only strictly before 10 minutes have
\* passed since the forgotPassword call that issued it, and at most once;
\* a token already redeemed, expired, never issued or replaced by a newer
\* one for the account is answered 'Invalid or expired reset token' and no
\* password changes.
C17_ResetTokenOnceWithinWindow ==
  [][\A token \in 1..(MaxTokens + 1), password \in Passwords :
       ResetPassword(token, password)
         => IF Redeemable(accounts, token, now)
            THEN /\ last'.code = 200
                 /\ accounts'.docs[accounts.sent[token].to].password = Bcrypt(password)
                 /\ ~Redeemable(accounts', token, now)
            ELSE /\ last'.code = 400
                 /\ last'.message = "Invalid or expired reset token"
                 /\ accounts' = accounts]_vars

\* C17 witness: the only token handed out has been redeemed, and a second
\* use inside the window has just been refused
C17_SecondUseRefused ==
  /\ last.op = "resetPassword"
  /\ last.code = 400
  /\ Len(accounts.sent) = 1
  /\ accounts.sent[1].used
  /\ now < accounts.sent[1].at + ResetTicks

\* a delete request for the document id, through any of the three handlers
DeleteRequest(id) ==
  \/ \E password \in Passwords : DeleteAccount(id, password)
  \/ DeleteUser(AdminId, id)
  \/ RouteDeleteUser(AdminId, id)

\* C18: user records are never removed: a delete through deleteUser,
\* DELETE /api/users/:id or deleteAccount keeps the record, sets isActive to
\* false and rewrites the email, so that no record holds the original email
\* and a registration with it (and a phone not in use) is accepted; an
\* admin's delete of the own account through the admin routes is refused
\* and changes nothing.
C18_SoftDeleteOnly ==
  [][/\ DOMAIN accounts.docs \subseteq DOMAIN accounts'.docs
     /\ \A id \in 1..(MaxAccounts + 1) :
          DeleteRequest(id)
            => IF last'.code = 200
               THEN /\ id \in DOMAIN accounts'.docs
                    /\ ~accounts'.docs[id].isActive
                    /\ accounts'.docs[id].email # accounts.docs[id].email
                    /\ accounts'.docs =
                         [accounts.docs EXCEPT ![id].isActive = FALSE,
                                               ![id].email = accounts'.docs[id].email]
                    /\ FindByEmail(accounts'.docs, accounts.docs[id].email) = 0
                    /\ \A phone \in Phones :
                         (\A i \in DOMAIN accounts'.docs : accounts'.docs[i].phone # phone)
                           => RegisterAnswer(accounts'.docs, accounts.docs[id].email, phone).code = 201
                    /\ UniqueEmails(accounts'.docs)
               ELSE accounts' = accounts
     /\ (DeleteUser(AdminId, AdminId) \/ RouteDeleteUser(AdminId, AdminId))
          => (last'.code = 400 /\ accounts' = accounts)]_vars

\* C18 witness: the address of a deleted record has been registered again
C18_AddressRegisteredAgain ==
  /\ last.op = "register"
  /\ last.code = 201
  /\ \E i, j \in DOMAIN accounts.docs :
       /\ i < j
       /\ ~accounts.docs[i].isActive
       /\ accounts.docs[i].email.stamps # <<>>
       /\ accounts.docs[j].email = Email(accounts.docs[i].email.addr)

\* C19: after any sequence of addReview operations the rating aggregate is
\* a full recomputation from the embedded reviews: ratings.overall is the
\* mean of the review ratings (0 when there are none), ratings.totalReviews
\* is the number of reviews, and the five distribution buckets hold the
\* numbers of reviews rated 5, 4, 3, 2 and 1 and sum to totalReviews.
C19_AggregateIsRecomputation ==
  LET reviews == attraction.reviews
      ratings == attraction.ratings
      buckets == ratings.distribution
  IN
  /\ ratings.overall * Len(reviews) = SumRatings(reviews)
  /\ ratings.totalReviews = Len(reviews)
  /\ buckets.five = CountRating(reviews, 50)
  /\ buckets.four = CountRating(reviews, 40)
  /\ buckets.three = CountRating(reviews, 30)
  /\ buckets.two = CountRating(reviews, 20)
  /\ buckets.one = CountRating(reviews, 10)
  /\ buckets.five + buckets.four + buckets.three + buckets.two + buckets.one
       = ratings.totalReviews

\* C20: an attraction holds at most one review per user: addReview by a
\* user who already has a review on it is refused with an error and leaves
\* the review list and the rating aggregate unchanged.
C20_OneReviewPerUser ==
  [][/\ \A u \in Reviewers, rating \in RatingInputs :
          (AddReview(u, rating) /\ HasReviewed(attraction, u))
            => (last'.code >= 400 /\ attraction' = attraction)
     /\ \A i, j \in DOMAIN attraction'.reviews :
          attraction'.reviews[i].user = attraction'.reviews[j].user => i = j]_vars

\* C20 witness: a second review by a user has just been refused
C20_SecondReviewRefused ==
  /\ last.op = "addReview"
  /\ last.code = 400
  /\ last.message = "You have already reviewed this attraction"
  /\ Len(attraction.reviews) >= 2

\* C26: in every reachable state of a trip 0 <= capacity.currentBookings <=
\* capacity.maxPeople, over any sequence of add-booking requests (the
\* controllers and the model's addBooking), cancellations and removals of
\* bookings, and cancelTrip, one at a time.
C26_CounterWithinCapacity ==
  /\ 0 <= trip.currentBookings
  /\ trip.currentBookings <= MaxPeople

\* C28: 'cancelled' is a terminal trip status: once the status is
\* 'cancelled' no request gives the trip another status and no booking is
\* added to it.
C28_CancelledIsTerminal ==
  [][trip.status = "cancelled"
       => (trip'.status = "cancelled" /\ Len(trip'.bookings) = Len(trip.bookings))]_vars

\* C30: cancelMyBooking changes the trip only when the caller owns the
\* booking and the booking is neither 'cancelled' nor 'completed': another
\* user's request is answered 403 and a request on a cancelled or completed
\* booking 400, each leaving the trip (the booking, currentBookings and the
\* status with it) as it was.
C30_CancelOnlyOwnOpenBooking ==
  [][\A u \in Tourists, id \in BookingIds :
       (CancelMyBooking(u, id) /\ id <= Len(trip.bookings))
         => IF trip.bookings[id].user # u
            THEN last'.code = 403 /\ trip' = trip
            ELSE IF trip.bookings[id].bookingStatus \in {"cancelled", "completed"}
            THEN last'.code = 400 /\ trip' = trip
            ELSE /\ last'.code = 200
                 /\ trip'.bookings[id].bookingStatus = "cancelled"
                 /\ trip'.currentBookings
                      = trip.currentBookings - trip.bookings[id].numberOfPeople]_vars

\* C30 witness: the owner's second cancellation of a booking has just been
\* refused, and the counter stands where the first one left it
C30_RepeatedCancelRefused ==
  /\ last.op = "cancelMyBooking"
  /\ last.code = 400
  /\ Len(trip.bookings) = 1
  /\ trip.bookings[1].bookingStatus = "cancelled"
  /\ trip.currentBookings = 0

\* a cancelTrip request through either controller
CancelTripRequest == CancelTrip \/ OcCancelTrip

C21_SlugUniqueAndDerived ==
  [][/\ \A a, b \in attractions' : a.slug = b.slug => a = b
     /\ \A a \in attractions' : a.slug = SlugOf(a.name, a.city)
     /\ \A name \in AttractionNames, city \in Cities :
          (CreateAttraction(name, city)
             /\ \E a \in attractions : a.slug = SlugOf(name, city))
            => (last'.code >= 400 /\ attractions' = attractions)]_vars

\* C29: a guide whom the admin has approved (isVerified, verificationStatus
\* 'approved') is recognised as verified by tripController.assignGuide: the
\* lookup finds the guide, the answer is not the 404 'Guide not found or not
\* verified'
C29_ApprovedGuideIsRecognised ==
  [][\A g \in Guides :
       (/\ AssignGuide(g)
        /\ users[g].isActive
        /\ users[g].isVerified
        /\ users[g].verificationStatus = "approved")
       => last'.code # 404]_vars

\* ------------------------------------------------------ middleware and routes
\* A middleware is given the stored document of the token's user and the
\* definition of middleware/auth.js that is loaded; 0 stands for next().

\* protect: only the first definition looks at isBanned
Protect(doc, def) ==
  IF ~doc.isActive THEN 401
  ELSE IF def = 1 /\ doc.isBanned THEN 403
  ELSE 0

\* isOrganiser: authorize('organiser', 'admin') in the first definition
IsOrganiser(doc, def) ==
  IF def = 1
  THEN IF doc.role \in {"organiser", "admin"} THEN 0 ELSE 403
  ELSE IF doc.role = "organiser" THEN 0 ELSE 403

\* requireVerified: the first definition reads the profile's isVerified, the
\* second asks for verificationStatus 'verified'
RequireVerified(doc, def) ==
  IF doc.role \notin {"guide", "organiser"} THEN 0
  ELSE IF def = 1
  THEN IF ~doc.isVerified THEN 403 ELSE 0
  ELSE IF doc.verificationStatus # "verified" THEN 403 ELSE 0

\* The middleware in front of a trip handler of /api/organiser.  server.js
\* mounts organiserRoutes and then tripRoutes on that path.  The
\* organiserRoutes with the trip routes (1) answer from organiserController
\* behind protect and isOrganiser; with the other organiserRoutes (2) the
\* request passes its protect and isOrganiser and falls through to
\* tripRoutes: protect, isOrganiser, requireVerified, tripController.
OrganiserGate(doc, b) ==
  IF Protect(doc, b.auth) # 0 THEN Protect(doc, b.auth)
  ELSE IF IsOrganiser(doc, b.auth) # 0 THEN IsOrganiser(doc, b.auth)
  ELSE IF b.organiserRoutes = 2 THEN RequireVerified(doc, b.auth)
  ELSE 0

\* a middleware has answered: the handler is not called
Refused(op, code) ==
  /\ last' = Response(op, code, trip)
  /\ UNCHANGED <<trip, users, now, reqs, otherDocs>>

\* organiserController.publishTrip
OcPublishTripCode(t, clock) ==
  IF t.status = "published" THEN 200
  ELSE IF t.status = "cancelled" THEN 400
  ELSE IF t.startDate <= clock THEN 400
  ELSE 200

OcPublishTrip ==
  LET code == OcPublishTripCode(trip, now)
  IN /\ last' = Response("organiser.publishTrip", code, trip)
     /\ trip' = IF code = 200 /\ trip.status # "published"
                THEN Save(trip, trip, [trip EXCEPT !.status = "published"], now)
                ELSE trip
     /\ UNCHANGED <<users, now, reqs, otherDocs>>

\* PUT /api/organiser/trips/:id/publish with the token of u; the handlers
\* look the trip up by its organiser
PutPublish(u) ==
  LET code == OrganiserGate(users[u], build)
  IN IF code # 0 THEN Refused("PUT /trips/:id/publish", code)
     ELSE IF users[u].role # "organiser" THEN Refused("PUT /trips/:id/publish", 404)
     ELSE IF build.organiserRoutes = 1 THEN OcPublishTrip
     ELSE PublishTrip

\* PUT /api/organiser/trips/:id/cancel with the token of u
PutCancel(u) ==
  LET code == OrganiserGate(users[u], build)
  IN IF code # 0 THEN Refused("PUT /trips/:id/cancel", code)
     ELSE IF users[u].role # "organiser" THEN Refused("PUT /trips/:id/cancel", 404)
     ELSE IF build.organiserRoutes = 1 THEN OcCancelTrip
     ELSE CancelTrip

\* PUT /api/organiser/trips/:id/assign-guide {guideId: g} with the token of u
PutAssignGuide(u, g) ==
  LET code == OrganiserGate(users[u], build)
  IN IF code # 0 THEN Refused("PUT /trips/:id/assign-guide", code)
     ELSE IF users[u].role # "organiser" THEN Refused("PUT /trips/:id/assign-guide", 404)
     ELSE IF build.organiserRoutes = 1 THEN OcAssignGuide(g)
     ELSE AssignGuide(g)

\* GET /api/auth/me with the token of u: protect, then getMe
GetMe(u) ==
  LET code == Protect(users[u], build.auth)
  IN IF code # 0 THEN Refused("GET /me", code)
     ELSE /\ last' = Response("getMe", 200, trip)
          /\ UNCHANGED <<trip, users, now, reqs, otherDocs>>

\* adminController.banUser {isBanned} on the user u, by the admin
BanUser(u, isBanned) ==
  /\ users' = [users EXCEPT ![u].isBanned = isBanned]
  /\ last' = Response("banUser", 200, trip)
  /\ UNCHANGED <<trip, now, reqs, otherDocs>>

\* the requests of u that pass through protect
ProtectedRequest(u) ==
  \/ GetMe(u)
  \/ PutPublish(u)
  \/ PutCancel(u)
  \/ \E g \in Users : PutAssignGuide(u, g)

\* SpecRoutes: requests behind the middleware, while the admin bans, unbans,
\* deactivates and reactivates the users; the server runs any of the builds
InitRoutes ==
  /\ trip = NewTrip
  /\ users = [NewUsers EXCEPT !["g1"] = VerifiedGuide]
  /\ now = 0
  /\ last = NoResponse
  /\ reqs = [p \in Procs |-> Idle]
  /\ accounts = NewAccounts
  /\ attraction = NewAttraction
  /\ attractions = {}
  /\ build \in Builds

NextRoutes ==
  \/ \E u \in Users : GetMe(u)
  \/ \E u \in Users : PutPublish(u)
  \/ \E u \in Users : PutCancel(u)
  \/ \E u \in Users, g \in Users : PutAssignGuide(u, g)
  \/ \E u \in Users, isBanned \in BOOLEAN : BanUser(u, isBanned)
  \/ \E u \in Users, isActive \in BOOLEAN : UpdateUser(u, isActive)

SpecRoutes == InitRoutes /\ [][NextRoutes]_vars

\* C25: a request through protect with the token of a deactivated user is
\* answered 401, one with the token of a banned (and active) user 403, and
\* the handler behind protect is not reached: nothing is changed
C25_BannedOrDeactivatedIsRejected ==
  [][\A u \in Users :
       (ProtectedRequest(u) /\ (users[u].isBanned \/ ~users[u].isActive))
       => /\ last'.code = IF ~users[u].isActive THEN 401 ELSE 403
          /\ trip' = trip]_vars

\* C23: a request of an organiser whose profile is not verified to publish
\* or cancel a trip or to assign a guide is answered 403 before the handler
\* runs, and the trip is unchanged
C23_UnverifiedOrganiserIsRefused ==
  [][\A u \in Organisers :
       (/\ PutPublish(u) \/ PutCancel(u) \/ \E g \in Users : PutAssignGuide(u, g)
        /\ users[u].isActive /\ ~users[u].isBanned
        /\ ~users[u].isVerified)
       => /\ last'.code = 403
          /\ trip' = trip]_vars

\* ------------------------------------------------------ roles and registration
\* userSchema.role (enum), and the role a register request can name
Roles == {"tourist", "guide", "organiser", "admin"}

\* guideProfileSchema / organiserProfileSchema: the document stored for an
\* object, the schema's defaults filling the paths the object leaves out
CastProfile(obj) ==
  [isVerified |-> IF "isVerified" \in DOMAIN obj THEN obj.isVerified ELSE FALSE,
   verificationStatus |-> IF "verificationStatus" \in DOMAIN obj
                          THEN obj.verificationStatus ELSE "pending",
   licenseNumber |-> IF "licenseNumber" \in DOMAIN obj THEN obj.licenseNumber ELSE ""]

\* the guideProfile / organiserProfile a register request can carry
ProfilePayloads ==
  {Undefined,
   [isVerified |-> TRUE],
   [licenseNumber |-> "L1", isVerified |-> TRUE, verificationStatus |-> "approved"]}

\* a register that would store the profile as it was sent
RegisterProfileAsSent(payload) == payload

\* register: { ...guideProfile, isVerified: false, verificationStatus: 'pending' }
RegisterProfile(payload) ==
  [f \in DOMAIN payload \cup {"isVerified", "verificationStatus"} |->
     IF f = "isVerified" THEN FALSE
     ELSE IF f = "verificationStatus" THEN "pending"
     ELSE payload[f]]

\* register: allowedRoles.includes(role) ? role : 'tourist'
UserRole(role) == IF role \in {"tourist", "guide", "organiser"} THEN role ELSE "tourist"

\* register's userData as User.create stores it: the profile of the role
\* comes from the request when it carries one, and from the pre-save hook
\* of a new document (an empty object) when it does not
RegisterDoc(email, phone, password, role, guideProfile, organiserProfile) ==
  LET userRole == UserRole(role) IN
  [Account(email, phone, password, userRole) EXCEPT
     !.guideProfile =
        IF userRole # "guide" THEN Undefined
        ELSE IF guideProfile # Undefined THEN CastProfile(RegisterProfile(guideProfile))
        ELSE CastProfile(Undefined),
     !.organiserProfile =
        IF userRole # "organiser" THEN Undefined
        ELSE IF organiserProfile # Undefined
        THEN CastProfile(RegisterProfile(organiserProfile))
        ELSE CastProfile(Undefined)]

RegisterMessage(userRole) ==
  CASE userRole = "guide" ->
         "Guide registration successful. Please complete your profile and submit for verification."
    [] userRole = "organiser" ->
         "Organiser registration successful. Please complete your company profile and submit for verification."
    [] OTHER -> "Registration successful"

\* POST /api/auth/register with a role and the profiles in the body
RegisterAs(addr, phone, password, role, guideProfile, organiserProfile) ==
  LET answer == RegisterAnswer(accounts.docs, Email(addr), phone) IN
  /\ answer.code = 201 => Len(accounts.docs) < MaxAccounts
  /\ accounts' = IF answer.code = 201
                 THEN [accounts EXCEPT !.docs =
                         Append(@, RegisterDoc(Email(addr), phone, password, role,
                                               guideProfile, organiserProfile))]
                 ELSE accounts
  /\ last' = IF answer.code = 201
             THEN AuthResponse("register", 201, RegisterMessage(UserRole(role)))
             ELSE answer
  /\ UNCHANGED <<trip, users, now, reqs, build, attraction, attractions>>

\* isAdmin
IsAdmin(doc) == IF doc.role = "admin" THEN 0 ELSE 403

\* adminProfileSchema has no isSuperAdmin path: the read is undefined
IsSuperAdmin(doc) == FALSE

\* requirePermission(permission): the first definition lets 'full_access'
\* through, the second adminProfile.isSuperAdmin
RequirePermission(doc, def, permission) ==
  IF doc.role # "admin" THEN 403
  ELSE IF def = 1 /\ "full_access" \in doc.permissions THEN 0
  ELSE IF def = 2 /\ IsSuperAdmin(doc) THEN 0
  ELSE IF permission \in doc.permissions THEN 0
  ELSE 403

\* adminRoutes: protect, isAdmin, requirePermission(permission)
AdminGate(doc, def, permission) ==
  IF Protect(doc, def) # 0 THEN Protect(doc, def)
  ELSE IF IsAdmin(doc) # 0 THEN IsAdmin(doc)
  ELSE RequirePermission(doc, def, permission)

\* the address of an admin that createAdmin is asked for
NewAdminAddress == "b@x.in"

\* the department and permissions of a createAdmin request
AdminPayloads ==
  {[department |-> "support"],
   [department |-> "support", permissions |-> {"manage_users"}],
   [department |-> "management", permissions |-> {"full_access"}]}

\* adminController.createAdmin behind its route, the user `caller` asking
CreateAdminAnswer(docs, caller, email) ==
  LET gate == AdminGate(docs[caller], build.auth, "full_access") IN
  IF gate # 0 THEN AuthResponse("createAdmin", gate, "Not authorized")
  ELSE IF "full_access" \notin docs[caller].permissions
  THEN AuthResponse("createAdmin", 403, "Only super admins can create new admins")
  ELSE IF FindByEmail(docs, email) # 0
  THEN AuthResponse("createAdmin", 400, "Email already registered")
  ELSE AuthResponse("createAdmin", 201, "Admin created successfully")

\* adminProfile: { department, permissions: permissions || ['view_analytics'] }
CreateAdminDoc(email, phone, password, body) ==
  [Account(email, phone, password, "admin") EXCEPT
     !.permissions = IF "permissions" \in DOMAIN body THEN body.permissions
                     ELSE {"view_analytics"}]

CreateAdmin(caller, addr, phone, password, body) ==
  LET answer == CreateAdminAnswer(accounts.docs, caller, Email(addr)) IN
  /\ caller \in DOMAIN accounts.docs
  /\ answer.code = 201 => Len(accounts.docs) < MaxAccounts
  /\ accounts' = IF answer.code = 201
                 THEN [accounts EXCEPT !.docs =
                         Append(@, CreateAdminDoc(Email(addr), phone, password, body))]
                 ELSE accounts
  /\ last' = answer
  /\ UNCHANGED <<trip, users, now, reqs, build, attraction, attractions>>

\* PUT /api/admin/users/:id {role}: adminController.updateUser behind
\* requirePermission('manage_users'), the user `caller` asking; the update
\* is a findByIdAndUpdate with the validators of the paths it sets
PutUserAnswer(docs, caller, id, role) ==
  LET gate == AdminGate(docs[caller], build.auth, "manage_users") IN
  IF gate # 0 THEN AuthResponse("updateUser", gate, "Not authorized")
  ELSE IF id \notin DOMAIN docs THEN AuthResponse("updateUser", 404, "User not found")
  ELSE AuthResponse("updateUser", 200, "User updated successfully")

PutUser(caller, id, role) ==
  LET answer == PutUserAnswer(accounts.docs, caller, id, role) IN
  /\ caller \in DOMAIN accounts.docs
  /\ accounts' = IF answer.code = 200
                 THEN [accounts EXCEPT !.docs[id].role = role]
                 ELSE accounts
  /\ last' = answer
  /\ UNCHANGED <<trip, users, now, reqs, build, attraction, attractions>>

\* POST /api/admin/create-admin with the token of `caller`
CreateAdminBy(caller) ==
  \E addr \in Addresses \cup {NewAdminAddress}, body \in AdminPayloads :
     CreateAdmin(caller, addr, AdminPhone, "secret1", body)

\* the _ids of the documents whose role is 'admin'
Admins(docs) == {i \in DOMAIN docs : docs[i].role = "admin"}

\* SpecRoles: registration with any role and profile, createAdmin and the
\* admin's role update, asked by any stored user
InitRoles ==
  /\ trip = NewTrip
  /\ users = NewUsers
  /\ now = 0
  /\ last = NoResponse
  /\ reqs = [p \in Procs |-> Idle]
  /\ accounts = NewAccounts
  /\ attraction = NewAttraction
  /\ attractions = {}
  /\ build \in {b \in Builds : b.organiserRoutes = 1}

NextRoles ==
  \/ \E addr \in Addresses \cup {NewAdminAddress}, role \in Roles,
        guideProfile \in ProfilePayloads, organiserProfile \in ProfilePayloads :
       RegisterAs(addr, "9000000001", "secret1", role, guideProfile, organiserProfile)
  \/ \E caller \in 1..MaxAccounts : CreateAdminBy(caller)
  \/ \E caller \in 1..MaxAccounts, id \in 1..(MaxAccounts + 1), role \in Roles :
       PutUser(caller, id, role)

SpecRoles == InitRoles /\ [][NextRoles]_vars

\* C24: a register that succeeds for a guide or an organiser stores the
\* profile with isVerified false and verificationStatus 'pending', whatever
\* the request carried
C24_RegisteredProfileIsUnverified ==
  [][(last'.op = "register" /\ last'.code = 201) =>
       LET doc == accounts'.docs[Len(accounts'.docs)] IN
       /\ doc.role = "guide" =>
            /\ doc.guideProfile.isVerified = FALSE
            /\ doc.guideProfile.verificationStatus = "pending"
       /\ doc.role = "organiser" =>
            /\ doc.organiserProfile.isVerified = FALSE
            /\ doc.organiserProfile.verificationStatus = "pending"]_vars

\* a guide has registered with a profile that claimed to be verified: the
\* license number of that payload is stored, its verification is not
C24_VerifiedPayloadStoredUnverified ==
  /\ last.op = "register"
  /\ last.code = 201
  /\ LET doc == accounts.docs[Len(accounts.docs)] IN
     /\ doc.role = "guide"
     /\ doc.guideProfile.licenseNumber = "L1"
     /\ ~doc.guideProfile.isVerified
     /\ doc.guideProfile.verificationStatus = "pending"

\* C22: a document with role 'admin' comes to be only by a createAdmin of a
\* caller whose permissions include 'full_access'; register never stores
\* an admin; a createAdmin of a caller without 'full_access' is answered
\* 403 and creates nothing
C22_AdminOnlyByCreateAdmin ==
  [][/\ Admins(accounts'.docs) \ Admins(accounts.docs) # {} =>
          \E caller \in DOMAIN accounts.docs :
             /\ CreateAdminBy(caller)
             /\ "full_access" \in accounts.docs[caller].permissions
     /\ last'.op = "register" => Admins(accounts'.docs) = Admins(accounts.docs)
     /\ \A caller \in DOMAIN accounts.docs :
          (CreateAdminBy(caller) /\ "full_access" \notin accounts.docs[caller].permissions)
          => (last'.code = 403 /\ accounts' = accounts)]_vars
====
